---------------------------- MODULE Spec2Model ----------------------------
(***************************************************************************)
(* A model of the telliot miner's signed data-server proxy (wire codec,    *)
(* request verification, the locked KV access of IncomingRequest) and of   *)
(* the lifecycle of the mine command.                                      *)
(*                                                                         *)
(* Strings and byte slices are sequences of bytes (0..255).  A Go slice    *)
(* that may be nil is a record [nil, s]: nil says whether the slice is the *)
(* nil slice, s holds its elements.                                        *)
(***************************************************************************)
EXTENDS Integers, Sequences, FiniteSets, TLC

(***************************************************************************)
(* Bounds of the model.                                                    *)
(***************************************************************************)
\* Request timestamps (unix seconds) range over 0..MaxTs.
MaxTs == 1
\* The server clock, in seconds, ranges over 0..MaxNow.
MaxNow == 3

(***************************************************************************)
(* Program constants.                                                      *)
(***************************************************************************)
\* const _validityThreshold = 2 //seconds
validityThreshold == 2
\* lru.NewARC(50)
HistorySize == 50

(***************************************************************************)
(* The state: of the data server, of the codec on its own, and of the mine *)
(* command.                                                                *)
(***************************************************************************)
VARIABLES
    now,        \* the server's clock, in seconds
    wlHistory,  \* remoteImpl.wlHistory: address -> the timestamps of its cache
    kv,         \* remoteImpl.localDB: key -> value, for the keys it holds
    writer,     \* rwLock: the thread holding the write lock, or "none"
    readers,    \* rwLock: the threads holding the read lock
    pc,         \* each serving thread's place in IncomingRequest
    req,        \* each thread's decoded request
    idx,        \* each thread's loop index
    outMap,     \* each thread's outMap
    resp,       \* each thread's response
    ashex,      \* each thread's signer address, as Verify recovered it
    meta,       \* (history) each thread's request as it arrived
    accepted    \* (history) the <<address, timestamp>> pairs served without error

serverVars == <<now, wlHistory, kv, writer, readers, pc, req, idx, outMap, resp,
                ashex, meta, accepted>>

VARIABLES
    cReq,    \* the request createRequest built
    cKey,    \* the key that signed it
    cBytes,  \* encodeRequest's result
    cDec,    \* decodeRequest's result
    cStage,  \* "idle", "created", "encoded", "decoded" or "delivered"
    cVia     \* how the request was delivered: [delay, seen]

codecVars == <<cReq, cKey, cBytes, cDec, cStage, cVia>>

VARIABLES
    mpc,           \* the command's place in mineCmd's action
    poolWorker,    \* cfg.EnablePoolWorker
    remoteDS,      \* the --remote option
    sigC,          \* the signals held by c, the channel of capacity 1
    delivered,     \* (history) the kill signals sent to the process
    exitChannels,  \* the components whose exit channel was registered
    ds,            \* "nil", "created", "starting", "running", "stopping" or "stopped"
    miner,         \* the same, for the mining manager
    nidx,          \* the notify loop's index into exitChannels
    interrupts,    \* (history) the interrupts each component took
    notifyRuns,    \* (history) the times the notify loop was entered
    cnt,           \* the wait loop's cnt
    warned,        \* (history) whether the wait loop has logged its warning
    status,        \* what the read of the dispute status gave
    exitMsg,       \* the operation ExitOnError reported as failed, or "panic"
    boot,          \* (history) how buildContext went, see BuildOutcomes
    dbOpened       \* (history) whether AddDBToCtx was called

bootVars == <<boot, dbOpened>>

mineVars == <<mpc, poolWorker, remoteDS, sigC, delivered, exitChannels, ds, miner,
              nidx, interrupts, notifyRuns, cnt, warned, status, exitMsg, bootVars>>

VARIABLES
    hpc,          \* the call's place: "off", "request", "sleep", "hung" or "returned"
    hKind,        \* "recReq" (util.HTTPWithRetries) or "recFetch" (tracker.fetchWithRetries)
    hTimeout,     \* req.Timeout, in milliseconds
    hNow,         \* the caller's clock, in milliseconds
    hExpiration,  \* expiration
    hAttempts,    \* (history) the attempts made
    hOutcome,     \* (history) what the last attempt gave: [kind, code], see Outcomes
    hResult,      \* what the call returned: "none", "data" or "error"
    hDelays       \* (history) the sleeps between the attempts, in milliseconds

httpVars == <<hpc, hKind, hTimeout, hNow, hExpiration, hAttempts, hOutcome,
              hResult, hDelays>>

VARIABLES
    kStage,  \* "off", "bytes" (ParseConfigBytes to run), "file" (ParseConfig to run), "parsed" or "parsedFile"
    kIn,     \* what ParseConfigBytes finds: the config's fields and the environment
    kOut,    \* what it leaves: the config, the environment, its error
    fIn,     \* the config file ParseConfig reads
    fOut     \* what ParseConfig returns

configVars == <<kStage, kIn, kOut, fIn, fOut>>

VARIABLES
    bpc,     \* "off", "call" (a write to issue), "failed", "posted" or "decoded"
    bpIn,    \* the keys and values handed to BatchPut or Put, and the client's key
    bpReq,   \* the request BatchPut created
    bpData,  \* the payload BatchPut posted
    bpDec    \* what the server's decodeRequest made of the payload

clientVars == <<bpc, bpIn, bpReq, bpData, bpDec>>

VARIABLES
    gpc,   \* "off", "setup" (SetupMiningGroup to run) or "done"
    gIn,   \* the build, cfg.NumProcessors, cfg.GPUConfig and what OpenCL finds
    gOut   \* what SetupMiningGroup returns: [err, hashers]

hasherVars == <<gpc, gIn, gOut>>

VARIABLES
    vWhitelist,  \* remoteImpl.whitelist: the addresses mapped to true
    vHistory,    \* remoteImpl.wlHistory: address -> the timestamps of its cache
    vNow,        \* the server's clock, in seconds
    vLast        \* (history) the last call of Verify: its signer, timestamp and error

historyVars == <<vWhitelist, vHistory, vNow, vLast>>

VARIABLES
    rtpc,         \* "off", "call", "request", "sleep" or "returned"
    rtKey,        \* the client's key
    rtReq,        \* what createRequest built
    rtHttp,       \* the util.HTTPFetchRequest: [Payload, Timeout]
    rtNow,        \* the clock of client and server, in seconds
    rtExpiration, \* expiration of _recReq
    rtSent,       \* (history) the attempts: what was posted and what the server did
    rtHist,       \* the server's wlHistory
    rtResult      \* what the call returned: "none", "data" or "error"

retryVars == <<rtpc, rtKey, rtReq, rtHttp, rtNow, rtExpiration, rtSent, rtHist, rtResult>>

VARIABLES
    fpc,            \* each call's place: "off", "call", "recFetch", "get", "inflight", "sleep" or "returned"
    fTimeout,       \* each call's req.timeout, in milliseconds
    fExpiration,    \* each call's expiration
    fOwn,           \* (history) expiration.Sub(now) as each call last computed it
    fUsed,          \* (history) the client timeout each call's last attempt ran under
    fStart,         \* when each call's last attempt started
    fWake,          \* when each call's sleep ends
    fResult,        \* what each call returned: "none", "data" or "error"
    fClock,         \* clck.Now(), in milliseconds
    clientTimeout   \* client.Timeout of the package's one http.Client

fetchVars == <<fpc, fTimeout, fExpiration, fOwn, fUsed, fStart, fWake, fResult, fClock, clientTimeout>>

vars == <<serverVars, codecVars, mineVars, httpVars, configVars, clientVars, hasherVars, historyVars, retryVars, fetchVars>>

otherThanServer == <<codecVars, mineVars, httpVars, configVars, clientVars, hasherVars, historyVars, retryVars, fetchVars>>

otherThanCodec == <<serverVars, mineVars, httpVars, configVars, clientVars, hasherVars, historyVars, retryVars, fetchVars>>

otherThanMine == <<serverVars, codecVars, httpVars, configVars, clientVars, hasherVars, historyVars, retryVars, fetchVars>>

otherThanHttp == <<serverVars, codecVars, mineVars, configVars, clientVars, hasherVars, historyVars, retryVars, fetchVars>>

otherThanConfig == <<serverVars, codecVars, mineVars, httpVars, clientVars, hasherVars, historyVars, retryVars, fetchVars>>

otherThanClient == <<serverVars, codecVars, mineVars, httpVars, configVars, hasherVars, historyVars, retryVars, fetchVars>>

otherThanHashers == <<serverVars, codecVars, mineVars, httpVars, configVars, clientVars, historyVars, retryVars, fetchVars>>

otherThanHistory == <<serverVars, codecVars, mineVars, httpVars, configVars, clientVars, hasherVars, retryVars, fetchVars>>

otherThanRetry == <<serverVars, codecVars, mineVars, httpVars, configVars, clientVars, hasherVars, historyVars, fetchVars>>

otherThanFetch == <<serverVars, codecVars, mineVars, httpVars, configVars, clientVars, hasherVars, historyVars, retryVars>>

(***************************************************************************)
(* Go slices.                                                              *)
(***************************************************************************)
Nil == [nil |-> TRUE, s |-> <<>>]

Slice(s) == [nil |-> FALSE, s |-> s]

RECURSIVE ConcatFirst(_, _)
ConcatFirst(ss, n) == IF n = 0 THEN <<>> ELSE ConcatFirst(ss, n - 1) \o ss[n]

\* The items of a sequence of sequences, one after the other.
Concat(ss) == ConcatFirst(ss, Len(ss))

Drop(buf, n) == SubSeq(buf, n + 1, Len(buf))

(***************************************************************************)
(* The primitive wire encodings: big-endian fixed-width integers, and      *)
(* byte strings prefixed by their uint32 length.  A decoder takes the      *)
(* unread bytes and gives [ok, val, rest].                                 *)
(***************************************************************************)
encodeU32(n) ==
    << (n \div 16777216) % 256, (n \div 65536) % 256, (n \div 256) % 256, n % 256 >>

encodeI64(v) ==
    LET hi == IF v < 0 THEN 255 ELSE 0
    IN  << hi, hi, hi, hi >> \o encodeU32(v)

encodeBytes(b) == encodeU32(Len(b)) \o b

encodeString(s) == encodeBytes(s)

DecodeFail == [ok |-> FALSE, val |-> 0, rest |-> <<>>]

decodeU32(buf) ==
    IF Len(buf) < 4 THEN DecodeFail
    ELSE [ok |-> TRUE,
          val |-> ((buf[1] * 256 + buf[2]) * 256 + buf[3]) * 256 + buf[4],
          rest |-> Drop(buf, 4)]

\* The model's integers are 32 bits wide: a decoded int64 outside that range
\* (no input of the model encodes one) is given as the largest one.
decodeI64(buf) ==
    IF Len(buf) < 8 THEN DecodeFail
    ELSE LET hi == SubSeq(buf, 1, 4)
             lo == Drop(buf, 4)
         IN  IF hi = <<0, 0, 0, 0>> /\ lo[1] < 128
             THEN [ok |-> TRUE, val |-> decodeU32(lo).val, rest |-> Drop(buf, 8)]
             ELSE IF hi = <<255, 255, 255, 255>> /\ lo[1] >= 128
             THEN [ok |-> TRUE,
                   val |-> (((lo[1] - 256) * 256 + lo[2]) * 256 + lo[3]) * 256 + lo[4],
                   rest |-> Drop(buf, 8)]
             ELSE [ok |-> TRUE, val |-> 2147483647, rest |-> Drop(buf, 8)]

decodeBytes(buf) ==
    LET n == decodeU32(buf)
    IN  IF ~n.ok \/ Len(n.rest) < n.val
        THEN [ok |-> FALSE, val |-> <<>>, rest |-> <<>>]
        ELSE [ok |-> TRUE, val |-> SubSeq(n.rest, 1, n.val), rest |-> Drop(n.rest, n.val)]

decodeString(buf) == decodeBytes(buf)

\* The loops of decodeKeysValuesAndTime: n length-prefixed items.
RECURSIVE decodeItems(_, _)
decodeItems(buf, n) ==
    IF n = 0 THEN [ok |-> TRUE, val |-> <<>>, rest |-> buf]
    ELSE LET d == decodeBytes(buf)
         IN  IF ~d.ok THEN [ok |-> FALSE, val |-> <<>>, rest |-> <<>>]
             ELSE LET r == decodeItems(d.rest, n - 1)
                  IN  IF ~r.ok THEN r
                      ELSE [ok |-> TRUE, val |-> <<d.val>> \o r.val, rest |-> r.rest]

(***************************************************************************)
(* The signature scheme.  Keccak256 is modelled as injective (the hash of  *)
(* a buffer is the buffer), a private key by the one byte that is its      *)
(* address, a signature by the signing key followed by the signed hash.    *)
(* Recovering the signer of a hash other than the signed one gives an      *)
(* address nobody owns.                                                    *)
(***************************************************************************)
Keccak256(bytes) == bytes

Sign(hash, key) == <<key>> \o hash

NobodyAddr == <<0>>

SigToPub(hash, sig) ==
    IF sig = <<>> THEN [err |-> "invalid signature", addr |-> <<>>]
    ELSE IF Tail(sig) = hash THEN [err |-> "", addr |-> <<Head(sig)>>]
    ELSE [err |-> "", addr |-> NobodyAddr]

(***************************************************************************)
(* remoteRequest.go                                                        *)
(***************************************************************************)
\* encodeKeysValuesAndTime with nothing written for nil values.
encodeKeysValuesAndTimeNoZero(dbKeys, values, timestamp) ==
    IF dbKeys.nil
    THEN [err |-> "No keys to encode", bytes |-> encodeI64(timestamp)]
    ELSE [err |-> "",
          bytes |-> encodeI64(timestamp)
                    \o encodeU32(Len(dbKeys.s))
                    \o Concat([i \in 1..Len(dbKeys.s) |-> encodeString(dbKeys.s[i])])
                    \o (IF ~values.nil
                        THEN encodeU32(Len(values.s))
                             \o Concat([i \in 1..Len(values.s) |-> encodeBytes(values.s[i])])
                        ELSE <<>>)]

\* [err, bytes]: the buffer keeps what was written before an error.
encodeKeysValuesAndTime(dbKeys, values, timestamp) ==
    IF dbKeys.nil
    THEN [err |-> "No keys to encode", bytes |-> encodeI64(timestamp)]
    ELSE [err |-> "",
          bytes |-> encodeI64(timestamp)
                    \o encodeU32(Len(dbKeys.s))
                    \o Concat([i \in 1..Len(dbKeys.s) |-> encodeString(dbKeys.s[i])])
                    \o (IF ~values.nil
                        THEN encodeU32(Len(values.s))
                             \o Concat([i \in 1..Len(values.s) |-> encodeBytes(values.s[i])])
                        ELSE encodeU32(0))]

\* decodeKeysValuesAndTime gives [ok, keys, values, time, rest].  It is
\* written as its reads in turn, each taking what was read before it.
DecodeError == [ok |-> FALSE, keys |-> Nil, values |-> Nil, time |-> 0, rest |-> <<>>]

\* the values read: make([][]byte, len) is never the nil slice
decodedValues(time, keys, vs) ==
    IF ~vs.ok THEN DecodeError
    ELSE [ok |-> TRUE, keys |-> Slice(keys), values |-> Slice(vs.val),
          time |-> time, rest |-> vs.rest]

\* the number of values read
decodedValueCount(time, keys, nv) ==
    IF ~nv.ok THEN DecodeError
    ELSE decodedValues(time, keys, decodeItems(nv.rest, nv.val))

\* the keys read
decodedKeys(time, ks) ==
    IF ~ks.ok THEN DecodeError
    ELSE decodedValueCount(time, ks.val, decodeU32(ks.rest))

\* the number of keys read
decodedKeyCount(time, nk) ==
    IF ~nk.ok THEN DecodeError
    ELSE decodedKeys(time, decodeItems(nk.rest, nk.val))

\* the timestamp read
decodedTime(t) ==
    IF ~t.ok THEN DecodeError
    ELSE decodedKeyCount(t.val, decodeU32(t.rest))

decodeKeysValuesAndTime(buf) == decodedTime(decodeI64(buf))

\* The length decodeKeysValuesAndTime passes to make([]string, len): the key
\* count as read from the buffer, before any key is read; 0 if none is read.
keyCountRead(t) == IF ~t.ok \/ ~decodeU32(t.rest).ok THEN 0 ELSE decodeU32(t.rest).val

keySliceLen(buf) == keyCountRead(decodeI64(buf))

\* The memory of the host, in MiB.
HostMemoryMiB == 16384

\* The size of a string header, the element of []string.
StringBytes == 16

\* Whether a []string of n elements fits in the host's memory.
Fits(n) == n \div (1048576 \div StringBytes) < HostMemoryMiB

\* A requestPayload.
Payload(keys, values, ts, sig) ==
    [dbKeys |-> keys, dbValues |-> values, timestamp |-> ts, sig |-> sig]

NoPayload == Payload(Nil, Nil, 0, Nil)

\* createRequest at unix time t, signed with key: [err, req].
createRequest(dbKeys, values, key, t) ==
    LET e == encodeKeysValuesAndTime(dbKeys, values, t)
    IN  IF e.err # "" THEN [err |-> e.err, req |-> NoPayload]
        ELSE [err |-> "",
              req |-> Payload(dbKeys, values, t, Slice(Sign(Keccak256(e.bytes), key)))]

\* [err, bytes]
encodeRequest(r) ==
    IF r.dbKeys.nil \/ Len(r.dbKeys.s) = 0
    THEN [err |-> "No keys in request", bytes |-> <<>>]
    ELSE IF r.sig.nil
    THEN [err |-> "Cannot encode a request without a signature attached", bytes |-> <<>>]
    ELSE LET e == encodeKeysValuesAndTime(r.dbKeys, r.dbValues, r.timestamp)
         IN  IF e.err # "" THEN [err |-> e.err, bytes |-> <<>>]
             ELSE [err |-> "", bytes |-> e.bytes \o encodeBytes(r.sig.s)]

\* The part of decodeRequest before Verify, [err, req, hash], written as its
\* steps in turn.
ParseError(msg) == [err |-> msg, req |-> NoPayload, hash |-> <<>>]

\* the hash of the decoded keys, values and time
parsedHash(d, sig, h) ==
    IF h.err # "" THEN ParseError(h.err)
    ELSE [err |-> "",
          req |-> Payload(d.keys, d.values, d.time, Slice(sig)),
          hash |-> Keccak256(h.bytes)]

\* the signature read
parsedSig(d, sig) ==
    IF ~sig.ok THEN ParseError("EOF")
    ELSE parsedHash(d, sig.val, encodeKeysValuesAndTime(d.keys, d.values, d.time))

\* keys, values and time read
parsedKeys(d) ==
    IF ~d.ok THEN ParseError("EOF")
    ELSE IF Len(d.keys.s) = 0 THEN ParseError("No dbKeys in incoming request")
    ELSE parsedSig(d, decodeBytes(d.rest))

decodeParse(data) == parsedKeys(decodeKeysValuesAndTime(data))

(***************************************************************************)
(* remote.go: the data server's side of the proxy.                         *)
(***************************************************************************)
\* a request expiring at the threshold already
ExpiredAtThreshold(timestamp, nowT) == nowT >= timestamp + validityThreshold

\* now.After(time.Unix(timestamp+_validityThreshold, 0))
Expired(timestamp, nowT) == nowT > timestamp + validityThreshold

\* Verify up to and without its last statement, cache.Add: [err, addr].
\* whitelist is the set of addresses mapped to true, hist maps an address
\* to the timestamps its cache holds.
Verify(hash, timestamp, sig, whitelist, hist, nowT) ==
    LET p == SigToPub(hash, sig)
    IN  IF p.err # "" THEN [err |-> p.err, addr |-> <<>>]
        ELSE IF p.addr \notin whitelist THEN [err |-> "Unauthorized", addr |-> p.addr]
        ELSE IF p.addr \notin DOMAIN hist
        THEN [err |-> "No history found for address", addr |-> p.addr]
        ELSE IF timestamp \in hist[p.addr] /\ Expired(timestamp, nowT)
        THEN [err |-> "Request expired", addr |-> p.addr]
        ELSE [err |-> "", addr |-> p.addr]

\* cache.Add(timestamp, true): the caches the ARC cache may become.  A full
\* cache gives up one of its entries.
cacheAdd(cache, timestamp) ==
    IF timestamp \in cache THEN {cache}
    ELSE IF Cardinality(cache) < HistorySize THEN {cache \cup {timestamp}}
    ELSE {(cache \ {e}) \cup {timestamp} : e \in cache}

\* decodeRequest going on after an error of Verify.
verifiedIgnoringError(d, v) == [err |-> "", req |-> d.req, addr |-> v.addr]

\* decodeRequest, Verify's cache.Add left to the caller: [err, req, addr].
\* d is what was parsed, v what Verify said.
verified(d, v) ==
    IF v.err # "" THEN [err |-> v.err, req |-> NoPayload, addr |-> v.addr]
    ELSE [err |-> "", req |-> d.req, addr |-> v.addr]

validated(d, whitelist, hist, nowT) ==
    IF d.err # "" THEN [err |-> d.err, req |-> NoPayload, addr |-> <<>>]
    ELSE verified(d, Verify(d.hash, d.req.timestamp, d.req.sig.s, whitelist, hist, nowT))

decodeRequest(data, whitelist, hist, nowT) ==
    validated(decodeParse(data), whitelist, hist, nowT)

HasPrefix(s, prefix) ==
    Len(s) >= Len(prefix) /\ SubSeq(s, 1, Len(prefix)) = prefix

\* hasAddressPrefix taking every key.
hasAddressPrefixAnyKey(key, whitelist) == TRUE

hasAddressPrefix(key, whitelist) == \E k \in whitelist : HasPrefix(key, k)

\* isKnownKey: the static allow-list of keys a remote read may name.
DisputeStatusKey == <<100>>

KnownKeys == {DisputeStatusKey}

isKnownKey(k) == k \in KnownKeys

errorResponse(msg) == [errorMsg |-> msg, dbVals |-> <<>>]

(***************************************************************************)
(* The data of the model: two whitelisted miners A and B, an outsider X,   *)
(* the requests they sign, and the byte strings that reach the server.     *)
(***************************************************************************)
KeyA == 1
KeyB == 2
KeyX == 3

AddrOf(key) == <<key>>

\* cfg.ServerWhitelist
ServerWhitelist == {AddrOf(KeyA), AddrOf(KeyB)}

\* A key of the local DB that is on no allow-list.
PrivateKey == <<101>>

\* A's scratch key, publicAddress + "-" + name.
ScratchA == AddrOf(KeyA) \o <<45, 7>>

Threads == {"t1", "t2"}

\* What a client may ask for, [keys, values]: reads of an allow-listed key
\* and of a key on no allow-list, a write of A's scratch key, a write whose
\* second key has no address prefix, and a write with fewer values than keys.
ReadKnown == [keys |-> Slice(<<DisputeStatusKey>>), values |-> Nil]

ReadPrivate == [keys |-> Slice(<<PrivateKey>>), values |-> Nil]

WriteScratch == [keys |-> Slice(<<ScratchA>>), values |-> Slice(<< <<11>> >>)]

WriteUnprefixed ==
    [keys |-> Slice(<<ScratchA, PrivateKey>>), values |-> Slice(<< <<12>>, <<12>> >>)]

WriteShort == [keys |-> Slice(<<ScratchA, ScratchA>>), values |-> Slice(<< <<13>> >>)]

\* What each key signs, and when: A all of them (its allow-listed read at
\* every timestamp), B and the outsider X the write of A's scratch key, X a
\* read as well.
Asked ==
    { [from |-> KeyA, shape |-> ReadKnown, t |-> t] : t \in 0..MaxTs }
    \cup { [from |-> KeyA, shape |-> sh, t |-> 0] :
             sh \in {ReadPrivate, WriteScratch, WriteUnprefixed, WriteShort} }
    \cup { [from |-> k, shape |-> WriteScratch, t |-> 0] : k \in {KeyB, KeyX} }
    \cup { [from |-> KeyX, shape |-> ReadKnown, t |-> 0] }

\* The requests createRequest builds, each with the key that signed it.
SignedRequests ==
    { [from |-> a.from,
       req |-> createRequest(a.shape.keys, a.shape.values, a.from, a.t).req] :
        a \in Asked }

\* A read A signed, its key replaced after signing.
Forged ==
    Payload(Slice(<<PrivateKey>>), Nil, 0,
            createRequest(ReadKnown.keys, ReadKnown.values, KeyA, 0).req.sig)

\* Twelve bytes of no request: a timestamp and a key count of 2^31 - 1.
HugeCount == encodeI64(0) \o <<127, 255, 255, 255>>

\* The byte strings that may arrive, each with the key behind its signature:
\* encoded requests, a forged one, one cut short, and the huge count.
WireInputs ==
    LET sent == { [from |-> r.from, data |-> encodeRequest(r.req).bytes] :
                    r \in SignedRequests }
        bytes == encodeRequest(Forged).bytes
    IN  sent \cup { [from |-> KeyA, data |-> bytes],
                    [from |-> KeyA, data |-> SubSeq(bytes, 1, Len(bytes) - 1)],
                    [from |-> KeyX, data |-> HugeCount] }

(***************************************************************************)
(* The data server under requests.                                         *)
(***************************************************************************)
NoMeta == [from |-> 0, replay |-> FALSE, late |-> FALSE, kvAtLock |-> <<>>]

\* OpenRemoteDB: a history for every whitelisted address.
OpenRemoteDB == [a \in ServerWhitelist |-> {}]

InitialDB ==
    [k \in {DisputeStatusKey, PrivateKey} |->
        IF k = DisputeStatusKey THEN <<1>> ELSE <<99>>]

ServerInit ==
    /\ now = 0
    /\ wlHistory = OpenRemoteDB
    /\ kv = InitialDB
    /\ writer = "none"
    /\ readers = {}
    /\ pc = [t \in Threads |-> "idle"]
    /\ req = [t \in Threads |-> NoPayload]
    /\ idx = [t \in Threads |-> 0]
    /\ outMap = [t \in Threads |-> <<>>]
    /\ resp = [t \in Threads |-> errorResponse("")]
    /\ ashex = [t \in Threads |-> <<>>]
    /\ meta = [t \in Threads |-> NoMeta]
    /\ accepted = {}

Put(db, k, v) == [x \in DOMAIN db \cup {k} |-> IF x = k THEN v ELSE db[x]]

\* time passes
Tick ==
    /\ now < MaxNow
    /\ now' = now + 1
    /\ UNCHANGED <<wlHistory, kv, writer, readers, pc, req, idx, outMap, resp,
                   ashex, meta, accepted>>
    /\ UNCHANGED otherThanServer

\* The return of a thread that releases the read lock only.
UnlockReadOnly(t) ==
    /\ writer' = writer
    /\ readers' = readers \ {t}

\* The deferred Unlock / RUnlock of a returning thread.
Unlock(t) ==
    /\ writer' = IF writer = t THEN "none" ELSE writer
    /\ readers' = readers \ {t}

\* return errorResponse(msg), or the encoded response
Respond(t, r) ==
    /\ pc' = [pc EXCEPT ![t] = "done"]
    /\ resp' = [resp EXCEPT ![t] = r]
    /\ accepted' = IF r.errorMsg = ""
                   THEN accepted \cup {<<AddrOf(meta[t].from), req[t].timestamp>>}
                   ELSE accepted

\* IncomingRequest up to Verify's cache.Add: the bytes decoded (p: as they
\* parse, d: as decodeRequest gives them), the signer recovered and checked.
Received(t, m, p, d) ==
    /\ pc[t] = "idle"
    /\ meta' = [meta EXCEPT ![t] =
                  [from |-> m.from,
                   replay |-> p.err = ""
                              /\ <<AddrOf(m.from), p.req.timestamp>> \in accepted,
                   late |-> p.err = "" /\ Expired(p.req.timestamp, now),
                   kvAtLock |-> <<>>]]
    /\ outMap' = [outMap EXCEPT ![t] = <<>>]
    /\ idx' = [idx EXCEPT ![t] = 0]
    /\ ashex' = [ashex EXCEPT ![t] = d.addr]
    /\ IF d.err # ""
       THEN /\ pc' = [pc EXCEPT ![t] = "done"]
            /\ resp' = [resp EXCEPT ![t] = errorResponse(d.err)]
            /\ req' = [req EXCEPT ![t] = NoPayload]
       ELSE /\ pc' = [pc EXCEPT ![t] = "add"]
            /\ req' = [req EXCEPT ![t] = d.req]
            /\ UNCHANGED resp
    /\ UNCHANGED <<now, wlHistory, kv, writer, readers, accepted>>
    /\ UNCHANGED otherThanServer

Receive(t, m) ==
    Received(t, m, decodeParse(m.data),
             decodeRequest(m.data, ServerWhitelist, wlHistory, now))

\* make([]string, len) of decodeKeysValuesAndTime for a length that does not
\* fit: where the host refuses the memory the runtime ends the process
\* ("fatal error: runtime: out of memory"), and every thread with it; where
\* it grants it, Receive goes on.
OutOfMemory(t, m) ==
    /\ pc[t] = "idle"
    /\ ~Fits(keySliceLen(m.data))
    /\ pc' = [u \in Threads |-> "crashed"]
    /\ meta' = [meta EXCEPT ![t].from = m.from]
    /\ UNCHANGED <<now, wlHistory, kv, writer, readers, req, idx, outMap, resp,
                   ashex, accepted>>
    /\ UNCHANGED otherThanServer

\* Verify's cache.Add(timestamp, true), and the return of decodeRequest.
VerifyAdd(t) ==
    LET a == ashex[t]
    IN  /\ pc[t] = "add"
        /\ IF a \in DOMAIN wlHistory
           THEN \E c \in cacheAdd(wlHistory[a], req[t].timestamp) :
                   wlHistory' = [wlHistory EXCEPT ![a] = c]
           ELSE UNCHANGED wlHistory
        /\ pc' = [pc EXCEPT ![t] = "lock"]
        /\ UNCHANGED <<now, kv, writer, readers, req, idx, outMap, resp, ashex, meta, accepted>>
        /\ UNCHANGED otherThanServer

\* BatchGet / BatchPut from the decoded response on: [err, vals].
batchReturn(remResp) ==
    IF Len(remResp.errorMsg) > 0
    THEN [err |-> remResp.errorMsg, vals |-> Nil]
    ELSE [err |-> "", vals |-> Slice(remResp.dbVals)]

\* i.rwLock.RLock() taken for a request with values.
LockWriteShared(t) ==
    /\ pc[t] = "lock"
    /\ ~req[t].dbValues.nil /\ Len(req[t].dbValues.s) > 0
    /\ writer = "none"
    /\ readers' = readers \cup {t}
    /\ pc' = [pc EXCEPT ![t] = "dims"]
    /\ meta' = [meta EXCEPT ![t].kvAtLock = kv]
    /\ UNCHANGED <<now, wlHistory, kv, writer, req, idx, outMap, resp, ashex, accepted>>
    /\ UNCHANGED otherThanServer

\* i.rwLock.Lock() for a request with values
LockWrite(t) ==
    /\ pc[t] = "lock"
    /\ ~req[t].dbValues.nil /\ Len(req[t].dbValues.s) > 0
    /\ writer = "none" /\ readers = {}
    /\ writer' = t
    /\ pc' = [pc EXCEPT ![t] = "dims"]
    /\ meta' = [meta EXCEPT ![t].kvAtLock = kv]
    /\ UNCHANGED <<now, wlHistory, kv, readers, req, idx, outMap, resp, ashex, accepted>>
    /\ UNCHANGED otherThanServer

\* i.rwLock.RLock() for a request without values
LockRead(t) ==
    /\ pc[t] = "lock"
    /\ ~(~req[t].dbValues.nil /\ Len(req[t].dbValues.s) > 0)
    /\ writer = "none"
    /\ readers' = readers \cup {t}
    /\ pc' = [pc EXCEPT ![t] = "get"]
    /\ idx' = [idx EXCEPT ![t] = 1]
    /\ meta' = [meta EXCEPT ![t].kvAtLock = kv]
    /\ UNCHANGED <<now, wlHistory, kv, writer, req, outMap, resp, ashex, accepted>>
    /\ UNCHANGED otherThanServer

\* if len(req.dbKeys) != len(req.dbValues)
CheckDims(t) ==
    /\ pc[t] = "dims"
    /\ IF Len(req[t].dbKeys.s) # Len(req[t].dbValues.s)
       THEN /\ Respond(t, errorResponse("Keys and values must have the same array dimensions"))
            /\ Unlock(t)
            /\ UNCHANGED idx
       ELSE /\ pc' = [pc EXCEPT ![t] = "put"]
            /\ idx' = [idx EXCEPT ![t] = 1]
            /\ UNCHANGED <<writer, readers, resp, accepted>>
    /\ UNCHANGED <<now, wlHistory, kv, req, outMap, ashex, meta>>
    /\ UNCHANGED otherThanServer

\* one round of the loop that writes the request's values
PutStep(t) ==
    LET k == req[t].dbKeys.s[idx[t]]
    IN  /\ pc[t] = "put"
        /\ IF ~hasAddressPrefix(k, ServerWhitelist)
           THEN /\ Respond(t, errorResponse("All remote data storage request keys must be prefixed with miner public Ethereum address"))
                /\ Unlock(t)
                /\ UNCHANGED <<kv, idx>>
           ELSE /\ kv' = Put(kv, k, req[t].dbValues.s[idx[t]])
                /\ IF idx[t] < Len(req[t].dbKeys.s)
                   THEN /\ idx' = [idx EXCEPT ![t] = idx[t] + 1]
                        /\ UNCHANGED pc
                   ELSE /\ idx' = [idx EXCEPT ![t] = 1]
                        /\ pc' = [pc EXCEPT ![t] = "get"]
                /\ UNCHANGED <<writer, readers, resp, accepted>>
        /\ UNCHANGED <<now, wlHistory, req, outMap, ashex, meta>>
        /\ UNCHANGED otherThanServer

\* one round of the loop that looks the request's keys up; after the last
\* one the response is returned
GetStep(t) ==
    LET k == req[t].dbKeys.s[idx[t]]
        got == IF k \in DOMAIN kv THEN Put(outMap[t], k, kv[k]) ELSE outMap[t]
    IN  /\ pc[t] = "get"
        /\ IF req[t].dbValues.nil /\ ~isKnownKey(k)
           THEN /\ Respond(t, errorResponse("Invalid lookup key"))
                /\ Unlock(t)
                /\ UNCHANGED <<idx, outMap>>
           ELSE /\ outMap' = [outMap EXCEPT ![t] = got]
                /\ IF idx[t] < Len(req[t].dbKeys.s)
                   THEN /\ idx' = [idx EXCEPT ![t] = idx[t] + 1]
                        /\ UNCHANGED <<pc, resp, accepted, writer, readers>>
                   ELSE /\ Respond(t, [errorMsg |-> "", dbVals |-> got])
                        /\ Unlock(t)
                        /\ UNCHANGED idx
        /\ UNCHANGED <<now, wlHistory, kv, req, ashex, meta>>
        /\ UNCHANGED otherThanServer

\* the response is written and the thread takes its next request
Return(t) ==
    /\ pc[t] = "done"
    /\ pc' = [pc EXCEPT ![t] = "idle"]
    /\ req' = [req EXCEPT ![t] = NoPayload]
    /\ idx' = [idx EXCEPT ![t] = 0]
    /\ outMap' = [outMap EXCEPT ![t] = <<>>]
    /\ resp' = [resp EXCEPT ![t] = errorResponse("")]
    /\ ashex' = [ashex EXCEPT ![t] = <<>>]
    /\ meta' = [meta EXCEPT ![t] = NoMeta]
    /\ UNCHANGED <<now, wlHistory, kv, writer, readers, accepted>>
    /\ UNCHANGED otherThanServer

\* i.localDB.Put gives an error in the loop that writes
PutFail(t) ==
    /\ pc[t] = "put"
    /\ hasAddressPrefix(req[t].dbKeys.s[idx[t]], ServerWhitelist)
    /\ Respond(t, errorResponse("localDB.Put"))
    /\ Unlock(t)
    /\ UNCHANGED <<now, wlHistory, kv, req, idx, outMap, ashex, meta>>
    /\ UNCHANGED otherThanServer

\* i.localDB.Get gives an error in the loop that looks up
GetFail(t) ==
    /\ pc[t] = "get"
    /\ ~(req[t].dbValues.nil /\ ~isKnownKey(req[t].dbKeys.s[idx[t]]))
    /\ Respond(t, errorResponse("localDB.Get"))
    /\ Unlock(t)
    /\ UNCHANGED <<now, wlHistory, kv, req, idx, outMap, ashex, meta>>
    /\ UNCHANGED otherThanServer

IncomingRequest(t) ==
    \/ \E m \in WireInputs : Receive(t, m)
    \/ \E m \in WireInputs : OutOfMemory(t, m)
    \/ VerifyAdd(t)
    \/ LockWrite(t)
    \/ LockRead(t)
    \/ CheckDims(t)
    \/ PutStep(t)
    \/ GetStep(t)
    \/ Return(t)

ServerNext == Tick \/ \E t \in Threads : IncomingRequest(t)

\* The requests of a server whose local DB may fail: those of A, at one
\* timestamp, and B's write.
LockInputs ==
    { [from |-> a.from,
       data |-> encodeRequest(createRequest(a.shape.keys, a.shape.values, a.from, a.t).req).bytes] :
         a \in { b \in Asked : b.t = 0 /\ b.from \in {KeyA, KeyB} } }

\* IncomingRequest over a local DB whose Put and Get may fail.
LockedRequest(t) ==
    \/ \E m \in LockInputs : Receive(t, m)
    \/ VerifyAdd(t)
    \/ LockWrite(t)
    \/ LockRead(t)
    \/ CheckDims(t)
    \/ PutStep(t)
    \/ PutFail(t)
    \/ GetStep(t)
    \/ GetFail(t)
    \/ Return(t)

LockNext == \E t \in Threads : LockedRequest(t)

(***************************************************************************)
(* The codec on its own: a request is built, encoded and decoded again.    *)
(***************************************************************************)
\* The longest key list and value list of a request.
MaxItems == 2

SeqsUpTo(S, n) == UNION { [1..k -> S] : k \in 0..n }

CodecStrings == { <<>>, DisputeStatusKey, ScratchA }

CodecValues == { <<>>, <<11>>, <<1, 0>> }

CodecTimes == { -1, 0, 1, 300, 70000 }

CodecKeyLists == { Slice(ks) : ks \in SeqsUpTo(CodecStrings, MaxItems) \ {<<>>} }

CodecValueLists == {Nil} \cup { Slice(vs) : vs \in SeqsUpTo(CodecValues, MaxItems) }

NoResult == [err |-> "", req |-> NoPayload, addr |-> <<>>]

NoDelivery == [delay |-> 0, seen |-> FALSE]

CodecIdle ==
    /\ cReq = NoPayload
    /\ cKey = 0
    /\ cBytes = [err |-> "", bytes |-> <<>>]
    /\ cDec = NoResult
    /\ cStage = "idle"
    /\ cVia = NoDelivery

\* createRequest(keys, values, signer)
CodecCreate ==
    /\ cStage = "idle"
    /\ \E ks \in CodecKeyLists, vs \in CodecValueLists, t \in CodecTimes,
          k \in {KeyA, KeyB} :
          /\ cReq' = createRequest(ks, vs, k, t).req
          /\ cKey' = k
    /\ cStage' = "created"
    /\ UNCHANGED <<cBytes, cDec, cVia>>
    /\ UNCHANGED otherThanCodec

\* encodeRequest(req)
CodecEncode ==
    /\ cStage = "created"
    /\ cBytes' = encodeRequest(cReq)
    /\ cStage' = "encoded"
    /\ UNCHANGED <<cReq, cKey, cDec, cVia>>
    /\ UNCHANGED otherThanCodec

\* decodeRequest(data, validator), the validator one that has seen nothing
\* of the signer and whose clock reads the request's timestamp
CodecDecode ==
    /\ cStage = "encoded"
    /\ cDec' = decodeRequest(cBytes.bytes, ServerWhitelist, OpenRemoteDB, cReq.timestamp)
    /\ cStage' = "decoded"
    /\ UNCHANGED <<cReq, cKey, cBytes, cVia>>
    /\ UNCHANGED otherThanCodec

\* the signer's history when an earlier request of the signer carried the
\* timestamp (Verify's cache.Add), and when none did
HistoryOf(key, timestamp, seen) ==
    IF seen THEN [OpenRemoteDB EXCEPT ![AddrOf(key)] = {timestamp}]
    ELSE OpenRemoteDB

\* decodeRequest(data, validator) of a request that reaches the server
\* delay seconds after createRequest read the clock, delay within the
\* validity threshold
CodecDeliver ==
    /\ cStage = "encoded"
    /\ \E delay \in 0..validityThreshold, seen \in BOOLEAN :
          /\ cDec' = decodeRequest(cBytes.bytes, ServerWhitelist,
                                   HistoryOf(cKey, cReq.timestamp, seen),
                                   cReq.timestamp + delay)
          /\ cVia' = [delay |-> delay, seen |-> seen]
    /\ cStage' = "delivered"
    /\ UNCHANGED <<cReq, cKey, cBytes>>
    /\ UNCHANGED otherThanCodec

CodecNext == CodecCreate \/ CodecEncode \/ CodecDecode \/ CodecDeliver


(***************************************************************************)
(* The mine command.  The data server (ds) and the mining manager (miner)  *)
(* are components that run until they take the interrupt from their exit   *)
(* channel, then stop and report not running.                              *)
(***************************************************************************)
\* The kill signals sent to the process.
MaxSignals == 2
\* The rounds of the wait loop.
MaxCnt == 62
\* if ... cnt > 60
WarnThreshold == 60
\* c := make(chan os.Signal, 1)
SigCap == 1

\* What DB.Get(db.DisputeStatusKey) and hexutil.DecodeBig give: the status
\* 1, another number, a value that is no hex number (status is nil), or a
\* read error (v is nil, and so is status).
StatusReads == {"one", "other", "undecodable", "error"}

MineIdle ==
    /\ mpc = "off"
    /\ poolWorker = FALSE
    /\ remoteDS = FALSE
    /\ sigC = 0
    /\ delivered = 0
    /\ exitChannels = <<>>
    /\ ds = "nil"
    /\ miner = "nil"
    /\ nidx = 0
    /\ interrupts = [c \in {"ds", "miner"} |-> 0]
    /\ notifyRuns = 0
    /\ cnt = 0
    /\ warned = FALSE
    /\ status = "unread"
    /\ exitMsg = ""
    /\ boot = "none"
    /\ dbOpened = FALSE

\* The application starts: app.Before has yet to run.
MineInit ==
    /\ mpc = "before"
    /\ poolWorker \in BOOLEAN
    /\ remoteDS \in BOOLEAN
    /\ sigC = 0
    /\ delivered = 0
    /\ exitChannels = <<>>
    /\ ds = "nil"
    /\ miner = "nil"
    /\ nidx = 0
    /\ interrupts = [c \in {"ds", "miner"} |-> 0]
    /\ notifyRuns = 0
    /\ cnt = 0
    /\ warned = FALSE
    /\ status = "unread"
    /\ exitMsg = ""
    /\ boot = "none"
    /\ dbOpened = FALSE

\* The command's action is running: c is made and registered for os.Interrupt.
Alive == mpc \notin {"off", "before", "exited", "panicked", "done"}

\* ExitOnError(err, operation) with an error: the message, then cli.Exit(-1).
ExitOnError(operation) ==
    /\ mpc' = "exited"
    /\ exitMsg' = operation

\* A nil dereference: the process dies with Go's panic report.
Panic ==
    /\ mpc' = "panicked"
    /\ exitMsg' = "panic"

\* signal.Notify's delivery of a kill signal: c takes it if it has room,
\* and it is dropped otherwise; the sender never waits.
Notify(c) == IF c < SigCap THEN c + 1 ELSE c

KillSignal ==
    /\ Alive
    /\ delivered < MaxSignals
    /\ delivered' = delivered + 1
    /\ sigC' = Notify(sigC)
    /\ UNCHANGED <<mpc, poolWorker, remoteDS, exitChannels, ds, miner, nidx,
                   interrupts, notifyRuns, cnt, warned, status, exitMsg>>
    /\ UNCHANGED bootVars
    /\ UNCHANGED otherThanMine

\* How buildContext may go: well, or with the failure of rpc.NewClient, of
\* tellor.NewTellor, of getter.NewTellorGetters, of crypto.HexToECDSA, of
\* client.IsSyncing, or with the node still syncing.
BuildOutcomes ==
    {"ok", "client", "tellor", "getter", "privateKey", "syncingErr", "syncing"}

\* buildContext taking a syncing node for a synced one.
buildContextNoHalt(pool, outcome) ==
    IF pool THEN ""
    ELSE IF outcome = "client" THEN "create client instance"
    ELSE IF outcome = "tellor" THEN "create tellor master instance"
    ELSE IF outcome = "getter" THEN "create tellor transactor instance"
    ELSE IF outcome = "privateKey" THEN "getting private key"
    ELSE IF outcome = "syncingErr" THEN "determining if Ethereum client is syncing"
    ELSE ""

\* buildContext: the error it returns, "" for nil.
buildContext(pool, outcome) ==
    IF pool THEN ""
    ELSE IF outcome = "client" THEN "create client instance"
    ELSE IF outcome = "tellor" THEN "create tellor master instance"
    ELSE IF outcome = "getter" THEN "create tellor transactor instance"
    ELSE IF outcome = "privateKey" THEN "getting private key"
    ELSE IF outcome = "syncingErr" THEN "determining if Ethereum client is syncing"
    ELSE IF outcome = "syncing" THEN "ethereum node is still syncing with the network"
    ELSE ""

\* app.Before: ExitOnError(config.ParseConfig(...), "parsing config file");
\* ExitOnError(buildContext(), "building context"); then the command's action.
Before ==
    /\ mpc = "before"
    /\ \/ /\ ExitOnError("parsing config file")
          /\ UNCHANGED boot
       \/ \E o \in BuildOutcomes :
            /\ boot' = o
            /\ IF buildContext(poolWorker, o) # ""
               THEN ExitOnError("building context")
               ELSE mpc' = "addDB" /\ UNCHANGED exitMsg
    /\ UNCHANGED <<poolWorker, remoteDS, sigC, delivered, exitChannels, ds, miner,
                   nidx, interrupts, notifyRuns, cnt, warned, status, dbOpened>>
    /\ UNCHANGED otherThanMine

\* if !cfg.EnablePoolWorker { ExitOnError(AddDBToCtx(*remoteDS), ...) ... }
AddDB ==
    /\ mpc = "addDB"
    /\ \/ /\ poolWorker
          /\ mpc' = "status"
          /\ UNCHANGED <<exitMsg, dbOpened>>
       \/ /\ ~poolWorker
          /\ mpc' = IF remoteDS THEN "status" ELSE "createDS"
          /\ dbOpened' = TRUE
          /\ UNCHANGED exitMsg
       \/ /\ ~poolWorker
          /\ ExitOnError("initializing database")
          /\ dbOpened' = TRUE
    /\ UNCHANGED <<poolWorker, remoteDS, sigC, delivered, exitChannels, ds, miner,
                   nidx, interrupts, notifyRuns, cnt, warned, status, boot>>
    /\ UNCHANGED otherThanMine

\* exitChannels = append(exitChannels, &ch); ds, err = ops.CreateDataServerOps(...)
CreateDS ==
    /\ mpc = "createDS"
    /\ exitChannels' = Append(exitChannels, "ds")
    /\ \/ /\ ds' = "created"
          /\ mpc' = "startDS"
          /\ UNCHANGED exitMsg
       \/ /\ ExitOnError("creating data server")
          /\ UNCHANGED ds
    /\ UNCHANGED <<poolWorker, remoteDS, sigC, delivered, miner, nidx, interrupts,
                   notifyRuns, cnt, warned, status>>
    /\ UNCHANGED bootVars
    /\ UNCHANGED otherThanMine

\* ds.Start(ctx)
StartDS ==
    /\ mpc = "startDS"
    /\ \/ /\ ds' = "starting"
          /\ mpc' = "ready"
          /\ UNCHANGED exitMsg
       \/ /\ ExitOnError("starting data server")
          /\ UNCHANGED ds
    /\ UNCHANGED <<poolWorker, remoteDS, sigC, delivered, exitChannels, miner, nidx,
                   interrupts, notifyRuns, cnt, warned, status>>
    /\ UNCHANGED bootVars
    /\ UNCHANGED otherThanMine

\* the data server has done its first cycle and signals Ready
DSReady ==
    /\ Alive
    /\ ds = "starting"
    /\ ds' = "running"
    /\ UNCHANGED <<mpc, poolWorker, remoteDS, sigC, delivered, exitChannels, miner,
                   nidx, interrupts, notifyRuns, cnt, warned, status, exitMsg>>
    /\ UNCHANGED bootVars
    /\ UNCHANGED otherThanMine

\* The command going on without the data server's Ready.
WaitReadyNotWaiting ==
    /\ mpc = "ready"
    /\ mpc' = "status"
    /\ UNCHANGED <<poolWorker, remoteDS, sigC, delivered, exitChannels, ds, miner,
                   nidx, interrupts, notifyRuns, cnt, warned, status, exitMsg>>
    /\ UNCHANGED bootVars
    /\ UNCHANGED otherThanMine

\* <-ds.Ready()
WaitReady ==
    /\ mpc = "ready"
    /\ ds = "running"
    /\ mpc' = "status"
    /\ UNCHANGED <<poolWorker, remoteDS, sigC, delivered, exitChannels, ds, miner,
                   nidx, interrupts, notifyRuns, cnt, warned, status, exitMsg>>
    /\ UNCHANGED bootVars
    /\ UNCHANGED otherThanMine

\* What the dispute gate does with a read of the status: status.Cmp on a nil
\* status dereferences nil.
Gate(read) ==
    IF read = "one" THEN "pass"
    ELSE IF read = "other" THEN "exit"
    ELSE "panic"

\* DB := ctx.Value(DataProxyKey)...; v, err := DB.Get(db.DisputeStatusKey);
\* status, _ := hexutil.DecodeBig(string(v)); if status.Cmp(big.NewInt(1)) != 0 ...
\* With the pool worker enabled no context was built and ctx is nil.
CheckStatus ==
    /\ mpc = "status"
    /\ IF poolWorker
       THEN /\ Panic
            /\ UNCHANGED status
       ELSE \E r \in StatusReads :
              /\ status' = r
              /\ CASE Gate(r) = "pass" -> mpc' = "createMiner" /\ UNCHANGED exitMsg
                   [] Gate(r) = "exit" ->
                        ExitOnError("miner is not able to mine with current status")
                   [] OTHER -> Panic
    /\ UNCHANGED <<poolWorker, remoteDS, sigC, delivered, exitChannels, ds, miner,
                   nidx, interrupts, notifyRuns, cnt, warned>>
    /\ UNCHANGED bootVars
    /\ UNCHANGED otherThanMine

\* exitChannels = append(exitChannels, &ch); miner, err := ops.CreateMiningManager(...);
\* miner.Start(ctx)
CreateMiner ==
    /\ mpc = "createMiner"
    /\ exitChannels' = Append(exitChannels, "miner")
    /\ \/ /\ miner' = "running"
          /\ mpc' = "waitKill"
          /\ UNCHANGED exitMsg
       \/ /\ ExitOnError("creating miner")
          /\ UNCHANGED miner
    /\ UNCHANGED <<poolWorker, remoteDS, sigC, delivered, ds, nidx, interrupts,
                   notifyRuns, cnt, warned, status>>
    /\ UNCHANGED bootVars
    /\ UNCHANGED otherThanMine

\* c read again for every signal it holds, also during the wait.
WaitKillEverySignal ==
    /\ mpc \in {"waitKill", "wait"}
    /\ sigC > 0
    /\ sigC' = sigC - 1
    /\ mpc' = "notify"
    /\ nidx' = 1
    /\ notifyRuns' = notifyRuns + 1
    /\ UNCHANGED <<poolWorker, remoteDS, delivered, exitChannels, ds, miner,
                   interrupts, cnt, warned, status, exitMsg>>
    /\ UNCHANGED bootVars
    /\ UNCHANGED otherThanMine

\* <-c
WaitKill ==
    /\ mpc = "waitKill"
    /\ sigC > 0
    /\ sigC' = sigC - 1
    /\ mpc' = "notify"
    /\ nidx' = 1
    /\ notifyRuns' = notifyRuns + 1
    /\ UNCHANGED <<poolWorker, remoteDS, delivered, exitChannels, ds, miner,
                   interrupts, cnt, warned, status, exitMsg>>
    /\ UNCHANGED bootVars
    /\ UNCHANGED otherThanMine

\* *ch <- os.Interrupt: the channel has no buffer, the send is taken when
\* the component receives
NotifyExit ==
    /\ mpc = "notify"
    /\ nidx <= Len(exitChannels)
    /\ LET ch == exitChannels[nidx]
       IN  /\ IF ch = "ds" THEN ds = "running" /\ ds' = "stopping" /\ UNCHANGED miner
                           ELSE miner = "running" /\ miner' = "stopping" /\ UNCHANGED ds
           /\ interrupts' = [interrupts EXCEPT ![ch] = @ + 1]
    /\ IF nidx < Len(exitChannels)
       THEN nidx' = nidx + 1 /\ UNCHANGED <<mpc, cnt>>
       ELSE mpc' = "wait" /\ cnt' = 0 /\ UNCHANGED nidx
    /\ UNCHANGED <<poolWorker, remoteDS, sigC, delivered, exitChannels, notifyRuns,
                   warned, status, exitMsg>>
    /\ UNCHANGED bootVars
    /\ UNCHANGED otherThanMine

\* a component that took its interrupt finishes and sets Running = false
ComponentStop ==
    /\ Alive
    /\ \/ ds = "stopping" /\ ds' = "stopped" /\ UNCHANGED miner
       \/ miner = "stopping" /\ miner' = "stopped" /\ UNCHANGED ds
    /\ UNCHANGED <<mpc, poolWorker, remoteDS, sigC, delivered, exitChannels, nidx,
                   interrupts, notifyRuns, cnt, warned, status, exitMsg>>
    /\ UNCHANGED bootVars
    /\ UNCHANGED otherThanMine

\* The values an unsynchronised read of a component's Running may give: the
\* component's own write of false may not be seen yet.
ReadStopped(comp) ==
    IF comp = "nil" THEN {TRUE}
    ELSE IF comp = "stopped" THEN {TRUE, FALSE}
    ELSE {FALSE}

\* The wait loop giving up once cnt is past the threshold.
WaitRoundGivingUp(c, dsStopped, minerStopped) ==
    IF c > WarnThreshold THEN "break"
    ELSE IF dsStopped /\ minerStopped THEN "break"
    ELSE "sleep"

\* What one round of the wait loop does after cnt++.
WaitRound(c, dsStopped, minerStopped) ==
    IF ~dsStopped /\ ~minerStopped /\ c > WarnThreshold THEN "warn"
    ELSE IF dsStopped /\ minerStopped THEN "break"
    ELSE "sleep"

\* one round of the wait loop
WaitTick ==
    /\ mpc = "wait"
    /\ cnt < MaxCnt
    /\ cnt' = cnt + 1
    /\ \E dsStopped \in ReadStopped(ds), minerStopped \in ReadStopped(miner) :
         LET r == WaitRound(cnt + 1, dsStopped, minerStopped)
         IN  /\ warned' = (warned \/ r = "warn")
             /\ mpc' = IF r = "break" THEN "done" ELSE mpc
    /\ UNCHANGED <<poolWorker, remoteDS, sigC, delivered, exitChannels, ds, miner,
                   nidx, interrupts, notifyRuns, status, exitMsg>>
    /\ UNCHANGED bootVars
    /\ UNCHANGED otherThanMine

MineNext ==
    \/ Before
    \/ KillSignal
    \/ AddDB
    \/ CreateDS
    \/ StartDS
    \/ DSReady
    \/ WaitReady
    \/ CheckStatus
    \/ CreateMiner
    \/ WaitKill
    \/ NotifyExit
    \/ ComponentStop
    \/ WaitTick

(***************************************************************************)
(* The HTTP retriers: util.HTTPWithRetries / _recReq, and the tracker's    *)
(* fetchWithRetries / _recFetch.  Times are in milliseconds.  An attempt   *)
(* takes some latency and gives a transport error, a response whose body   *)
(* cannot be read, or a status code; or it is never answered.              *)
(***************************************************************************)
\* The longest Timeout of a request.
MaxTimeout == 1200

\* The longest an answered attempt takes.
MaxLatency == 700

\* time.Sleep(500 * time.Millisecond) of _recReq
RetrySleep == 500

\* time.Sleep(1000 * time.Millisecond) of _recFetch after a transport error
FetchErrorSleep == 1000

\* time.Sleep(500 * time.Millisecond) of _recFetch after a bad status
FetchStatusSleep == 500

StatusOKMin == 200

StatusOKMax == 299

Timeouts == {0, RetrySleep, MaxTimeout}

Latencies == {0, 300, MaxLatency}

\* What an attempt gives: kind is "err" (transport error), "readErr" (a
\* response, with its code, whose body cannot be read in full) or "status"
\* (a response, with its code).
Outcome(kind, code) == [kind |-> kind, code |-> code]

NoOutcome == Outcome("none", 0)

Outcomes ==
    {Outcome("err", 0)}
        \cup {Outcome(k, c) : k \in {"status", "readErr"},
                              c \in {199, StatusOKMin, StatusOKMax, 300}}

\* r.StatusCode < 200 || r.StatusCode > 299
BadStatus(code) == code < StatusOKMin \/ code > StatusOKMax

HttpIdle ==
    /\ hpc = "off"
    /\ hKind = "recReq"
    /\ hTimeout = 0
    /\ hNow = 0
    /\ hExpiration = 0
    /\ hAttempts = 0
    /\ hOutcome = NoOutcome
    /\ hResult = "none"
    /\ hDelays = <<>>

\* HTTPWithRetries(req) / fetchWithRetries(req): expiration is now + timeout
HttpInit ==
    /\ hpc = "request"
    /\ hKind \in {"recReq", "recFetch"}
    /\ hTimeout \in Timeouts
    /\ hNow = 0
    /\ hExpiration = hNow + hTimeout
    /\ hAttempts = 0
    /\ hOutcome = NoOutcome
    /\ hResult = "none"
    /\ hDelays = <<>>

\* The timeout of the attempt's client: none (0) for http.Get and http.Post
\* of the default client; expiration.Sub(now) for the tracker's client, for
\* which a Timeout that is not positive means no timeout.
ClientTimeout(kind, expiration, nowT) ==
    IF kind = "recFetch" /\ expiration - nowT > 0 THEN expiration - nowT ELSE 0

\* What the caller sees of an attempt of latency lat and outcome out: the
\* client's timeout, when it comes first, turns it into a transport error.
Seen(kind, expiration, nowT, lat, out) ==
    LET ct == ClientTimeout(kind, expiration, nowT)
    IN  IF ct > 0 /\ lat > ct
        THEN [at |-> nowT + ct, out |-> Outcome("err", 0)]
        ELSE [at |-> nowT + lat, out |-> out]

\* _recReq returning the body whatever the status.
recReqAnyStatus(out, t, expiration) ==
    IF out.kind = "err"
    THEN IF t > expiration THEN "error" ELSE "retry"
    ELSE "data"

\* What _recReq does with an attempt's outcome at time t: "data", "error"
\* or "retry".  The error of reading the body is dropped.
recReq(out, t, expiration) ==
    IF out.kind = "err"
    THEN IF t > expiration THEN "error" ELSE "retry"
    ELSE IF BadStatus(out.code)
    THEN IF t > expiration THEN "error" ELSE "retry"
    ELSE "data"

\* What _recFetch does with it.
recFetch(out, t, expiration) ==
    IF out.kind = "err"
    THEN IF t > expiration THEN "error" ELSE "retry"
    ELSE IF out.kind = "readErr" THEN "error"
    ELSE IF BadStatus(out.code)
    THEN IF t > expiration THEN "error" ELSE "retry"
    ELSE "data"

\* The longer sleep before every attempt.
SleepForLonger(kind, out) == FetchErrorSleep

\* The sleep before the next attempt.
SleepFor(kind, out) ==
    IF kind = "recReq" THEN RetrySleep
    ELSE IF out.kind = "err" THEN FetchErrorSleep ELSE FetchStatusSleep

\* One attempt that ends: the request is sent, and answered or failed.
Attempt ==
    /\ hpc = "request"
    /\ \E lat \in Latencies, out \in Outcomes :
         LET seen == Seen(hKind, hExpiration, hNow, lat, out)
             does == IF hKind = "recReq"
                     THEN recReq(seen.out, seen.at, hExpiration)
                     ELSE recFetch(seen.out, seen.at, hExpiration)
         IN  /\ hNow' = seen.at
             /\ hOutcome' = seen.out
             /\ hAttempts' = hAttempts + 1
             /\ hpc' = IF does = "retry" THEN "sleep" ELSE "returned"
             /\ hResult' = IF does = "retry" THEN "none" ELSE does
    /\ UNCHANGED <<hKind, hTimeout, hExpiration, hDelays>>
    /\ UNCHANGED otherThanHttp

\* An attempt the remote endpoint never answers, under no client timeout.
NeverAnswered ==
    /\ hpc = "request"
    /\ ClientTimeout(hKind, hExpiration, hNow) = 0
    /\ hpc' = "hung"
    /\ hAttempts' = hAttempts + 1
    /\ UNCHANGED <<hKind, hTimeout, hNow, hExpiration, hOutcome, hResult, hDelays>>
    /\ UNCHANGED otherThanHttp

\* time.Sleep, then the recursive call
Retry ==
    /\ hpc = "sleep"
    /\ hNow' = hNow + SleepFor(hKind, hOutcome)
    /\ hDelays' = Append(hDelays, SleepFor(hKind, hOutcome))
    /\ hpc' = "request"
    /\ UNCHANGED <<hKind, hTimeout, hExpiration, hAttempts, hOutcome, hResult>>
    /\ UNCHANGED otherThanHttp

HttpNext == Attempt \/ NeverAnswered \/ Retry

(***************************************************************************)
(* The configuration: ParseConfigBytes with validateConfig, and            *)
(* ParseConfig.  A string is a sequence of characters.  Durations are in   *)
(* milliseconds, for time.Duration's nanoseconds.                          *)
(***************************************************************************)
HexChars == {"0", "1", "a", "b", "A"}

ToLowerChar(c) == IF c = "A" THEN "a" ELSE IF c = "X" THEN "x" ELSE c

\* strings.ToLower
ToLower(str) == [i \in 1..Len(str) |-> ToLowerChar(str[i])]

\* strings.Contains(str, "0x")
Contains0x(str) == \E i \in 1..(Len(str) - 1) : str[i] = "0" /\ str[i + 1] = "x"

\* strings.ReplaceAll(str, "0x", "")
RECURSIVE ReplaceAll0x(_)
ReplaceAll0x(str) ==
    IF Len(str) < 2 THEN str
    ELSE IF str[1] = "0" /\ str[2] = "x" THEN ReplaceAll0x(Drop(str, 2))
    ELSE <<str[1]>> \o ReplaceAll0x(Tail(str))

\* The pairs of hex digits str begins with.
RECURSIVE HexPairs(_)
HexPairs(str) ==
    IF Len(str) < 2 \/ str[1] \notin HexChars \/ str[2] \notin HexChars THEN 0
    ELSE 1 + HexPairs(Drop(str, 2))

\* hex.DecodeString: [err, len], len the bytes decoded.
hexDecodeString(str) ==
    [err |-> (Len(str) % 2 = 1) \/ (\E i \in 1..Len(str) : str[i] \notin HexChars),
     len |-> HexPairs(str)]

AddressBytes == 20

PrivateKeyBytes == 32

GasMultiplierMax == 20

\* common.HexToAddress, the address as 40 lower-case hex digits: one 0x or 0X
\* prefix dropped, an odd length made even with a 0, the hex pairs decoded up
\* to the first that is none, the last 20 bytes taken or zero bytes put before.
FromHex(str) ==
    LET bare == IF Len(str) >= 2 /\ str[1] = "0" /\ str[2] \in {"x", "X"}
                THEN Drop(str, 2) ELSE str
        even == IF Len(bare) % 2 = 1 THEN <<"0">> \o bare ELSE bare
    IN  ToLower(SubSeq(even, 1, 2 * HexPairs(even)))

HexToAddress(str) ==
    LET h == FromHex(str)
        n == 2 * AddressBytes
    IN  IF Len(h) >= n THEN SubSeq(h, Len(h) - n + 1, Len(h))
        ELSE [i \in 1..(n - Len(h)) |-> "0"] \o h

\* errors.Wrapf(err, ...): nil for a nil err.
Wrapf(isErr, msg) == IF isErr THEN msg ELSE ""

\* validateConfig: the error it returns, "" for nil.
validateConfig(publicAddress, nodeURL, privateKey, gasMultiplier) ==
    LET a == hexDecodeString(publicAddress)
        k == hexDecodeString(privateKey)
    IN  IF a.err \/ a.len # AddressBytes
        THEN Wrapf(a.err, "expecting 40 hex character public address")
        ELSE IF nodeURL = <<>> THEN "missing nodeURL environment variable"
        ELSE IF k.err \/ k.len # PrivateKeyBytes
        THEN Wrapf(k.err, "expecting 64 hex character private key")
        ELSE IF gasMultiplier < 0 \/ gasMultiplier > GasMultiplierMax
        THEN "gas multiplier out of range [0, 20]"
        ELSE ""

\* The whitelist ParseConfigBytes leaves.
defaultWhitelist(whitelist, publicAddress) ==
    IF Len(whitelist) = 0
    THEN IF Contains0x(publicAddress) THEN <<publicAddress>>
         ELSE <<<<"0", "x">> \o publicAddress>>
    ELSE whitelist

\* ParseConfigBytes: [err, publicAddress, whitelist, privateKey].
ParseConfigBytes(in) ==
    IF ~in.jsonOK
    THEN [err |-> "parse config json", publicAddress |-> in.publicAddress,
          whitelist |-> in.whitelist, privateKey |-> in.privateKey]
    ELSE LET wl == defaultWhitelist(in.whitelist, in.publicAddress)
             key == ToLower(ReplaceAll0x(in.privateKey))
             addr == ToLower(ReplaceAll0x(in.publicAddress))
         IN  [err |-> validateConfig(addr, in.nodeURL, key, in.gasMultiplier),
              publicAddress |-> addr, whitelist |-> wl, privateKey |-> key]

\* A string of n characters c.
Rep(c, n) == [i \in 1..n |-> c]

Hex40 == Rep("a", 2 * AddressBytes)

Hex64 == Rep("b", 2 * PrivateKeyBytes)

PublicAddresses ==
    { Hex40,
      <<"0", "x">> \o Hex40,
      <<"0", "x">> \o Rep("A", 2 * AddressBytes),
      <<"0", "X">> \o Hex40,
      <<"0", "x", "0", "x">> \o Hex40,
      Rep("a", 20) \o <<"0", "x">> \o Rep("b", 20),
      Rep("a", 2 * AddressBytes - 2),
      Rep("a", 2 * AddressBytes - 1),
      Rep("a", 2 * AddressBytes - 1) \o <<"g">>,
      <<>> }

PrivateKeys ==
    { Hex64, <<"0", "x">> \o Hex64, Rep("b", 2 * PrivateKeyBytes - 2),
      Rep("b", 2 * PrivateKeyBytes - 1) \o <<"g">>, <<>> }

NodeURLs == { <<>>, <<"u">> }

GasMultipliers == { -1, 0, 1, GasMultiplierMax, GasMultiplierMax + 1 }

Whitelists == { <<>>, << <<"0", "x">> \o Rep("b", 2 * AddressBytes) >> }

ConfigInputs ==
    [publicAddress : PublicAddresses, whitelist : Whitelists,
     privateKey : PrivateKeys, nodeURL : NodeURLs,
     gasMultiplier : GasMultipliers, jsonOK : BOOLEAN]

NoConfigInput ==
    [publicAddress |-> <<>>, whitelist |-> <<>>, privateKey |-> <<>>,
     nodeURL |-> <<>>, gasMultiplier |-> 0, jsonOK |-> TRUE]

NoConfigOutput ==
    [err |-> "", publicAddress |-> <<>>, whitelist |-> <<>>, privateKey |-> <<>>]

\* time.Second and time.Minute, in milliseconds.
Second == 1000

Minute == 60 * Second

\* A JSON value of the config file: t is "absent" (the member is not in the
\* file), "num" (the number n), "str" (the string s) or "obj" (an object with
\* the members keys, its member Duration, if any, the number n).
Json(t, n, str, keys) == [t |-> t, n |-> n, s |-> str, keys |-> keys]

Absent == Json("absent", 0, <<>>, {})

JsonNum(n) == Json("num", n, <<>>, {})

JsonStr(str) == Json("str", 0, str, {})

\* json.Marshal of a Duration: the embedded time.Duration as the member
\* "Duration", in the unit of time.Duration.
MarshalDuration(d) == Json("obj", d, <<>>, {"Duration"})

Digits == {"0", "1", "2", "5"}

DigitVal(c) == IF c = "1" THEN 1 ELSE IF c = "2" THEN 2 ELSE IF c = "5" THEN 5 ELSE 0

\* The digits str begins with.
RECURSIVE NumLen(_)
NumLen(str) == IF str = <<>> \/ str[1] \notin Digits THEN 0 ELSE 1 + NumLen(Tail(str))

\* The value of the first n characters of str, decimal digits.
RECURSIVE DecVal(_, _)
DecVal(str, n) == IF n = 0 THEN 0 ELSE 10 * DecVal(str, n - 1) + DigitVal(str[n])

\* time.ParseDuration of a number and a unit: [err, d].
ParseDuration(str) ==
    LET n == NumLen(str)
        unit == Drop(str, n)
    IN  IF n = 0 THEN [err |-> TRUE, d |-> 0]
        ELSE IF unit = <<"s">> THEN [err |-> FALSE, d |-> DecVal(str, n) * Second]
        ELSE IF unit = <<"m">> THEN [err |-> FALSE, d |-> DecVal(str, n) * Minute]
        ELSE IF unit = <<"m", "s">> THEN [err |-> FALSE, d |-> DecVal(str, n)]
        ELSE [err |-> TRUE, d |-> 0]

\* Duration.UnmarshalJSON over the Duration old: [err, d]; err is "panic" for
\* the failed type assertion of an object without a Duration number.
UnmarshalDuration(j, old) ==
    IF j.t = "num" THEN [err |-> "", d |-> j.n * Second]
    ELSE IF j.t = "str"
    THEN IF ParseDuration(j.s).err THEN [err |-> "invalid duration", d |-> old]
         ELSE [err |-> "", d |-> ParseDuration(j.s).d]
    ELSE IF j.t = "obj"
    THEN IF "Duration" \in j.keys THEN [err |-> "", d |-> j.n]
         ELSE [err |-> "panic", d |-> old]
    ELSE [err |-> "", d |-> old]

\* defaultConfig, of its options a few.
defaultConfig == [heartbeat |-> 15 * Second, minSubmitPeriod |-> 15 * Minute, gasMax |-> 10]

\* The deep copy: json.Marshal(defaultConfig), then json.Unmarshal into the
\* empty Config.
DeepCopy(c) ==
    [heartbeat |-> UnmarshalDuration(MarshalDuration(c.heartbeat), 0).d,
     minSubmitPeriod |-> UnmarshalDuration(MarshalDuration(c.minSubmitPeriod), 0).d,
     gasMax |-> c.gasMax]

\* dec.Decode(cfg) over the copy, unknown fields disallowed: [err, cfg].  The
\* members are taken in the order heartbeat, minSubmitPeriod, gasMax, then the
\* member no field of Config matches.
Decode(file, c) ==
    LET h == UnmarshalDuration(file.heartbeat, c.heartbeat)
        m == UnmarshalDuration(file.minSubmitPeriod, c.minSubmitPeriod)
    IN  IF h.err # "" THEN [err |-> h.err, cfg |-> c]
        ELSE IF m.err # "" THEN [err |-> m.err, cfg |-> c]
        ELSE IF file.unknown THEN [err |-> "parse config", cfg |-> c]
        ELSE [err |-> "",
              cfg |-> [heartbeat |-> h.d, minSubmitPeriod |-> m.d,
                       gasMax |-> IF file.gasMax.t = "num" THEN file.gasMax.n
                                  ELSE c.gasMax]]

\* ParseConfig: [err, cfg]; no file to open is an error.
ParseConfig(file) ==
    IF ~file.exists THEN [err |-> "open config file", cfg |-> defaultConfig]
    ELSE Decode(file, DeepCopy(defaultConfig))

DurationValues ==
    { Absent, JsonNum(0), JsonNum(20),
      JsonStr(<<"1", "5", "s">>), JsonStr(<<"2", "m">>), JsonStr(<<"5", "0", "m", "s">>),
      JsonStr(<<"1", "5">>), JsonStr(<<"s">>),
      Json("obj", 7, <<>>, {"Duration"}),
      Json("obj", 7, <<>>, {"Duration", "bogus"}),
      Json("obj", 0, <<>>, {"bogus"}) }

ConfigFiles ==
    [exists : BOOLEAN, heartbeat : DurationValues,
     minSubmitPeriod : {Absent, JsonNum(60), JsonStr(<<"2", "m">>)},
     gasMax : {Absent, JsonNum(7)}, unknown : BOOLEAN]

NoConfigFile ==
    [exists |-> FALSE, heartbeat |-> Absent, minSubmitPeriod |-> Absent,
     gasMax |-> Absent, unknown |-> FALSE]

NoParse == [err |-> "", cfg |-> defaultConfig]

ConfigIdle ==
    /\ kStage = "off"
    /\ kIn = NoConfigInput
    /\ kOut = NoConfigOutput
    /\ fIn = NoConfigFile
    /\ fOut = NoParse

ConfigInit ==
    /\ kOut = NoConfigOutput
    /\ fOut = NoParse
    /\ \/ kStage = "bytes" /\ kIn \in ConfigInputs /\ fIn = NoConfigFile
       \/ kStage = "file" /\ kIn = NoConfigInput /\ fIn \in ConfigFiles

ParseBytes ==
    /\ kStage = "bytes"
    /\ kOut' = ParseConfigBytes(kIn)
    /\ kStage' = "parsed"
    /\ UNCHANGED <<kIn, fIn, fOut>>
    /\ UNCHANGED otherThanConfig

ParseFile ==
    /\ kStage = "file"
    /\ fOut' = ParseConfig(fIn)
    /\ kStage' = "parsedFile"
    /\ UNCHANGED <<kIn, kOut, fIn>>
    /\ UNCHANGED otherThanConfig

ConfigNext == ParseBytes \/ ParseFile

(***************************************************************************)
(* The client's write path: BatchPut and Put of the remote proxy, and the   *)
(* server's decoding of what they post.                                     *)
(***************************************************************************)
\* dbKeys of BatchPut, the keys as they were given.
BatchPutKeysAsGiven(keys, publicAddress) == keys

\* dbKeys of BatchPut: each key under the client's address.
BatchPutKeys(keys, publicAddress) ==
    [i \in 1..Len(keys) |->
        IF ~HasPrefix(keys[i], publicAddress)
        THEN publicAddress \o <<45>> \o keys[i]
        ELSE keys[i]]

ClientKeys ==
    { <<>>, <<7>>, ScratchA, AddrOf(KeyA), AddrOf(KeyB) \o <<45, 7>>, DisputeStatusKey }

ClientValues == { <<>>, <<11>>, <<1, 0>> }

ClientTimes == { 1, 300 }

NoWrite == [keys |-> <<>>, values |-> Nil, key |-> KeyA, via |-> "none", now |-> 0]

ClientIdle ==
    /\ bpc = "off"
    /\ bpIn = NoWrite
    /\ bpReq = NoPayload
    /\ bpData = <<>>
    /\ bpDec = NoResult

ClientInit ==
    /\ bpc = "call"
    /\ bpIn = NoWrite
    /\ bpReq = NoPayload
    /\ bpData = <<>>
    /\ bpDec = NoResult

\* BatchPut(keys, values) of the client signing with key, at unix time t, up
\* to the post of the payload: [bpc, bpReq, bpData].
BatchPutCall(keys, values, key, t) ==
    LET publicAddress == AddrOf(key)
        created == createRequest(Slice(BatchPutKeys(keys, publicAddress)), values, key, t)
        data == encodeRequest(created.req)
    IN  IF created.err # ""
        THEN [bpc |-> "failed", bpReq |-> NoPayload, bpData |-> <<>>]
        ELSE IF data.err # ""
        THEN [bpc |-> "failed", bpReq |-> created.req, bpData |-> <<>>]
        ELSE [bpc |-> "posted", bpReq |-> created.req, bpData |-> data.bytes]

BatchPut ==
    /\ bpc = "call"
    /\ \E keys \in SeqsUpTo(ClientKeys, MaxItems),
          values \in {Nil} \cup { Slice(vs) : vs \in SeqsUpTo(ClientValues, MaxItems) },
          key \in {KeyA, KeyB}, t \in ClientTimes :
          /\ bpIn' = [keys |-> keys, values |-> values, key |-> key,
                      via |-> "BatchPut", now |-> t]
          /\ bpc' = BatchPutCall(keys, values, key, t).bpc
          /\ bpReq' = BatchPutCall(keys, values, key, t).bpReq
          /\ bpData' = BatchPutCall(keys, values, key, t).bpData
    /\ UNCHANGED bpDec
    /\ UNCHANGED otherThanClient

\* Put(key, value): BatchPut of the one key and the one value.
remotePut ==
    /\ bpc = "call"
    /\ \E k \in ClientKeys, value \in ClientValues, key \in {KeyA, KeyB}, t \in ClientTimes :
          /\ bpIn' = [keys |-> <<k>>, values |-> Slice(<<value>>), key |-> key,
                      via |-> "Put", now |-> t]
          /\ bpc' = BatchPutCall(<<k>>, Slice(<<value>>), key, t).bpc
          /\ bpReq' = BatchPutCall(<<k>>, Slice(<<value>>), key, t).bpReq
          /\ bpData' = BatchPutCall(<<k>>, Slice(<<value>>), key, t).bpData
    /\ UNCHANGED bpDec
    /\ UNCHANGED otherThanClient

\* The server decodes the payload of the post, its clock at the time the
\* request was made.
ServerDecode ==
    /\ bpc = "posted"
    /\ bpDec' = decodeRequest(bpData, ServerWhitelist, OpenRemoteDB, bpIn.now)
    /\ bpc' = "decoded"
    /\ UNCHANGED <<bpIn, bpReq, bpData>>
    /\ UNCHANGED otherThanClient

ClientNext == BatchPut \/ remotePut \/ ServerDecode

(***************************************************************************)
(* The hashers of the mining group: SetupMiningGroup of the CPU build and  *)
(* of the GPU build.                                                       *)
(***************************************************************************)
\* The most processors, and the most GPUs, of a host.
MaxProcessors == 2

MaxGPUs == 2

\* NewCpuMiner(id)
NewCpuMiner(id) == [kind |-> "cpu", id |-> id, name |-> ""]

\* NewGpuMiner(gpu, ...), where it succeeds
NewGpuMiner(gpu) == [kind |-> "gpu", id |-> 0, name |-> gpu]

\* The loop over i < NumProcessors, from 1.
cpuHashersFromOne(numProcessors) ==
    [i \in 1..numProcessors |-> NewCpuMiner(i)]

\* The loop over i < NumProcessors: a CPU miner of each i.
cpuHashers(numProcessors) ==
    [i \in 1..numProcessors |-> NewCpuMiner(i - 1)]

\* SetupMiningGroup of the CPU build: [err, hashers].
SetupMiningGroupCPU(numProcessors) ==
    [err |-> "", hashers |-> cpuHashers(numProcessors)]

\* cfg.GPUConfig[name], or cfg.GPUConfig["default"] where the map has no
\* name: "absent" (no entry at all), "nil", "enabled" or "disabled".
gpuConfigOf(GPUConfig, name) ==
    IF GPUConfig[name] # "absent" THEN GPUConfig[name] ELSE GPUConfig["default"]

\* The loop over gpus: [err, hashers] after the first n of them; a GPU whose
\* miner fails to initialise ends the function.
RECURSIVE gpuHashers(_, _, _, _)
gpuHashers(gpus, GPUConfig, failing, n) ==
    IF n = 0 THEN [err |-> "", hashers |-> <<>>]
    ELSE LET sofar == gpuHashers(gpus, GPUConfig, failing, n - 1)
         IN  IF sofar.err # "" THEN sofar
             ELSE IF gpuConfigOf(GPUConfig, gpus[n]) = "disabled" THEN sofar
             ELSE IF gpus[n] \in failing
             THEN [err |-> "initializing GPU", hashers |-> <<>>]
             ELSE [err |-> "", hashers |-> Append(sofar.hashers, NewGpuMiner(gpus[n]))]

\* SetupMiningGroup of the GPU build: [err, hashers].
SetupMiningGroupGPU(in) ==
    LET looped == gpuHashers(in.gpus, in.GPUConfig, in.failing, Len(in.gpus))
    IN  IF in.openCLErr THEN [err |-> "GetOpenCLGPUs", hashers |-> <<>>]
        ELSE IF looped.err # "" THEN looped
        ELSE IF Len(looped.hashers) = 0
        THEN [err |-> "", hashers |-> cpuHashers(in.numProcessors)]
        ELSE looped

GPUNames == {"g1", "g2"}

GPUConfigs == [GPUNames \cup {"default"} -> {"absent", "nil", "enabled", "disabled"}]

GPULists == UNION { [1..k -> GPUNames] : k \in 0..MaxGPUs }

HasherInputs ==
    [build : {"cpu", "gpu"}, numProcessors : -1..MaxProcessors, gpus : GPULists,
     GPUConfig : GPUConfigs, failing : SUBSET GPUNames, openCLErr : BOOLEAN]

\* The CPU build knows nothing of GPUs.
CPUInput(n) ==
    [build |-> "cpu", numProcessors |-> n, gpus |-> <<>>,
     GPUConfig |-> [g \in GPUNames \cup {"default"} |-> "absent"],
     failing |-> {}, openCLErr |-> FALSE]

NoHashers == [err |-> "", hashers |-> <<>>]

HashersIdle ==
    /\ gpc = "off"
    /\ gIn = CPUInput(0)
    /\ gOut = NoHashers

HashersInit ==
    /\ gpc = "setup"
    /\ gIn \in { in \in HasherInputs : in.build = "gpu" \/ in = CPUInput(in.numProcessors) }
    /\ gOut = NoHashers

SetupCPU ==
    /\ gpc = "setup"
    /\ gIn.build = "cpu"
    /\ gOut' = SetupMiningGroupCPU(gIn.numProcessors)
    /\ gpc' = "done"
    /\ UNCHANGED gIn
    /\ UNCHANGED otherThanHashers

SetupGPU ==
    /\ gpc = "setup"
    /\ gIn.build = "gpu"
    /\ gOut' = SetupMiningGroupGPU(gIn)
    /\ gpc' = "done"
    /\ UNCHANGED gIn
    /\ UNCHANGED otherThanHashers

HashersNext == SetupCPU \/ SetupGPU

(***************************************************************************)
(* Verify on its own: the whitelist and the histories OpenRemoteDB builds  *)
(* from cfg.ServerWhitelist, and calls of Verify one after the other, with *)
(* timestamps enough to fill a history.                                    *)
(***************************************************************************)
\* The largest request timestamp; a signer's fresh timestamps grow by one.
MaxHistTs == 50

\* The server clock ranges over 0..MaxHistNow.
MaxHistNow == 3

\* The address behind 40 hex digits, as the model writes addresses: the
\* digits of A's, of B's, or of an address no key of the model has.
ModelAddr(hex) ==
    IF hex = Rep("a", 2 * AddressBytes) THEN AddrOf(KeyA)
    ELSE IF hex = Rep("b", 2 * AddressBytes) THEN AddrOf(KeyB)
    ELSE <<9>>

\* asStr of OpenRemoteDB: strings.ToLower(common.HexToAddress(a).Hex())
asStr(a) == ModelAddr(ToLower(HexToAddress(a)))

\* OpenRemoteDB with no history made.
OpenRemoteDBNoHistory(whitelist) ==
    [whitelist |-> { asStr(whitelist[n]) : n \in 1..Len(whitelist) },
     wlHistory |-> <<>>]

\* OpenRemoteDB over cfg.ServerWhitelist: [whitelist, wlHistory], for every
\* entry its address mapped to true and to an empty cache.
OpenRemoteDBOver(whitelist) ==
    [whitelist |-> { asStr(whitelist[n]) : n \in 1..Len(whitelist) },
     wlHistory |-> [a \in { asStr(whitelist[n]) : n \in 1..Len(whitelist) } |-> {}]]

\* cfg.ServerWhitelist: none, A in lower case, A in upper case under 0x and
\* B, A twice, and A under 0x twice (which is not A) and B.
ConfiguredWhitelists ==
    { <<>>,
      <<Rep("a", 2 * AddressBytes)>>,
      << <<"0", "x">> \o Rep("A", 2 * AddressBytes), <<"0", "x">> \o Rep("b", 2 * AddressBytes) >>,
      << Rep("a", 2 * AddressBytes), <<"0", "x">> \o Rep("A", 2 * AddressBytes) >>,
      << <<"0", "x", "0", "x">> \o Rep("a", 2 * AddressBytes), Rep("b", 2 * AddressBytes) >> }

NoCall == [key |-> 0, ts |-> 0, err |-> "", addr |-> <<>>]

HistoryIdle ==
    /\ vWhitelist = {}
    /\ vHistory = <<>>
    /\ vNow = 0
    /\ vLast = NoCall

HistoryInit ==
    /\ \E wl \in ConfiguredWhitelists :
          /\ vWhitelist = OpenRemoteDBOver(wl).whitelist
          /\ vHistory = OpenRemoteDBOver(wl).wlHistory
    /\ vNow = 0
    /\ vLast = NoCall

\* Verify purging the history of a signer it refuses.
VerifyEffectPurging(hist, v, timestamp) ==
    IF v.err = ""
    THEN { [hist EXCEPT ![v.addr] = c] : c \in cacheAdd(hist[v.addr], timestamp) }
    ELSE IF v.addr \in DOMAIN hist THEN { [hist EXCEPT ![v.addr] = {}] }
    ELSE {hist}

\* The histories Verify may leave, v what it returns: cache.Add(timestamp,
\* true) is its last statement, every error returns before it.
VerifyEffect(hist, v, timestamp) ==
    IF v.err = ""
    THEN { [hist EXCEPT ![v.addr] = c] : c \in cacheAdd(hist[v.addr], timestamp) }
    ELSE {hist}

\* The timestamps the holder of key signs next: the first, its latest again,
\* and the one after its latest.
Largest(S) == CHOOSE x \in S : \A y \in S : y <= x

NextTimestamps(key) ==
    IF AddrOf(key) \in DOMAIN vHistory /\ vHistory[AddrOf(key)] # {} /\ key = KeyA
    THEN {0, Largest(vHistory[AddrOf(key)])}
         \cup { t \in {Largest(vHistory[AddrOf(key)]) + 1} : t <= MaxHistTs }
    ELSE {0}

\* One call of Verify(hash, timestamp, sig): sig the signature of key on the
\* hash, or no signature at all (key 0).
VerifyCall ==
    \E key \in {0, KeyA, KeyB, KeyX} : \E timestamp \in NextTimestamps(key) :
        LET hash == Keccak256(encodeI64(timestamp))
            sig == IF key = 0 THEN <<>> ELSE Sign(hash, key)
            v == Verify(hash, timestamp, sig, vWhitelist, vHistory, vNow)
        IN  /\ vHistory' \in VerifyEffect(vHistory, v, timestamp)
            /\ vLast' = [key |-> key, ts |-> timestamp, err |-> v.err, addr |-> v.addr]
            /\ UNCHANGED <<vWhitelist, vNow>>
            /\ UNCHANGED otherThanHistory

HistoryTick ==
    /\ vLast # NoCall
    /\ vNow < MaxHistNow
    /\ vNow' = vNow + 1
    /\ UNCHANGED <<vWhitelist, vHistory, vLast>>
    /\ UNCHANGED otherThanHistory

HistoryNext == VerifyCall \/ HistoryTick

(***************************************************************************)
(* A remote call under retries: BatchGet / BatchPut build and sign the     *)
(* request once and hand it to util.HTTPWithRetries; every attempt of      *)
(* _recReq posts req.Payload to the data server, whose IncomingRequest     *)
(* answers with data or with an error response.  Times are in seconds.     *)
(***************************************************************************)
\* The latest time of the clock.
MaxRetryNow == 12

\* The most attempts of one call.
MaxAttempts == 3

\* Timeout: time.Duration(10 * time.Second)
RemoteTimeout == 10

\* how long a post takes to reach the server's handler
RetryLatencies == {0, 1, 3}

\* what the client sees of an attempt
RetryOutcomes == {Outcome("err", 0), Outcome("status", 300), Outcome("status", StatusOKMin)}

HTTPFetchRequest(payload, timeout) == [Payload |-> payload, Timeout |-> timeout]

NoAttempts == <<>>

RetryIdle ==
    /\ rtpc = "off"
    /\ rtKey = 0
    /\ rtReq = NoPayload
    /\ rtHttp = HTTPFetchRequest(<<>>, 0)
    /\ rtNow = 0
    /\ rtExpiration = 0
    /\ rtSent = NoAttempts
    /\ rtHist = OpenRemoteDB
    /\ rtResult = "none"

\* a client about to call BatchGet or BatchPut, the server's history empty
\* or holding the present second for the first signer
RetryInit ==
    /\ rtpc = "call"
    /\ rtKey \in {KeyA, KeyX}
    /\ rtReq = NoPayload
    /\ rtHttp = HTTPFetchRequest(<<>>, 0)
    /\ rtNow = 0
    /\ rtExpiration = 0
    /\ rtSent = NoAttempts
    /\ rtHist \in {HistoryOf(KeyA, 0, seen) : seen \in BOOLEAN}
    /\ rtResult = "none"

\* the calls: BatchGet(keys) has no values
RemoteCalls ==
    { [keys |-> <<DisputeStatusKey>>, values |-> Nil],
      [keys |-> <<ScratchA>>, values |-> Slice(<<<<11>>>>)] }

\* BatchGet / BatchPut down to util.HTTPWithRetries: the request is
\* created at the present second and encoded, and expiration is set
RemoteCall ==
    /\ rtpc = "call"
    /\ \E c \in RemoteCalls :
         LET dbKeys == IF c.values.nil THEN c.keys
                       ELSE BatchPutKeys(c.keys, AddrOf(rtKey))
             created == createRequest(Slice(dbKeys), c.values, rtKey, rtNow)
             data == encodeRequest(created.req)
         IN  /\ created.err = "" /\ data.err = ""
             /\ rtReq' = created.req
             /\ rtHttp' = HTTPFetchRequest(data.bytes, RemoteTimeout)
    /\ rtExpiration' = rtNow + RemoteTimeout
    /\ rtpc' = "request"
    /\ UNCHANGED <<rtKey, rtNow, rtSent, rtHist, rtResult>>
    /\ UNCHANGED otherThanRetry

\* the request handed to the next attempt, rebuilt at the present second
retryRequestRestamped(r, nowT) ==
    LET d == decodeParse(r.Payload).req
        created == createRequest(d.dbKeys, d.dbValues, Head(d.sig.s), nowT)
    IN  [r EXCEPT !.Payload = encodeRequest(created.req).bytes]

\* the request handed to the next attempt: return _recReq(req, expiration)
retryRequest(r, nowT) == r

\* what the server's handler makes of the posted bytes at time at:
\* decodeRequest with Verify, and the response
ServedAt(data, hist, at) ==
    LET dec == decodeRequest(data, ServerWhitelist, hist, at)
    IN  [recorded |-> dec.err = "",
         resp |-> errorResponse(dec.err),
         hists |-> IF dec.err = ""
                   THEN VerifyEffect(hist, [err |-> "", addr |-> dec.addr], dec.req.timestamp)
                   ELSE {hist}]

\* a post the server never saw
NotServed(hist) ==
    [recorded |-> FALSE, resp |-> errorResponse("unreachable"), hists |-> {hist}]

\* BatchGet / BatchPut after HTTPWithRetries: decodeResponse and errorMsg
RemoteResult(does, response) ==
    IF does = "data" /\ response.errorMsg = "" THEN "data"
    ELSE IF does = "retry" THEN "none"
    ELSE "error"

\* one attempt of _recReq: http.Post of req.Payload, which reaches the
\* handler or not, and what comes back
RemoteAttempt ==
    /\ rtpc = "request"
    /\ Len(rtSent) < MaxAttempts
    /\ \E lat \in RetryLatencies, reached \in BOOLEAN, out \in RetryOutcomes :
         LET at == rtNow + lat
             srv == IF reached THEN ServedAt(rtHttp.Payload, rtHist, at)
                    ELSE NotServed(rtHist)
             does == recReq(out, at, rtExpiration)
         IN  /\ at <= MaxRetryNow
             /\ out.kind = "status" /\ ~BadStatus(out.code) => reached
             /\ rtNow' = at
             /\ rtHist' \in srv.hists
             /\ rtSent' = Append(rtSent, [payload |-> rtHttp.Payload, at |-> at,
                                          reached |-> reached,
                                          recorded |-> srv.recorded,
                                          resp |-> srv.resp])
             /\ rtpc' = IF does = "retry" THEN "sleep" ELSE "returned"
             /\ rtResult' = RemoteResult(does, srv.resp)
    /\ UNCHANGED <<rtKey, rtReq, rtHttp, rtExpiration>>
    /\ UNCHANGED otherThanRetry

\* time.Sleep(500 * time.Millisecond), which may end in the next second,
\* and the recursive call
RemoteRetry ==
    /\ rtpc = "sleep"
    /\ \E s \in {0, 1} :
         /\ rtNow + s <= MaxRetryNow
         /\ rtNow' = rtNow + s
         /\ rtHttp' = retryRequest(rtHttp, rtNow + s)
    /\ rtpc' = "request"
    /\ UNCHANGED <<rtKey, rtReq, rtExpiration, rtSent, rtHist, rtResult>>
    /\ UNCHANGED otherThanRetry

RetryNext == RemoteCall \/ RemoteAttempt \/ RemoteRetry

(***************************************************************************)
(* The tracker's fetchWithRetries / _recFetch called from several          *)
(* goroutines.  All calls share the package variable client; _recFetch     *)
(* writes client.Timeout and then calls client.Get, which reads it, with   *)
(* no lock between the two.  Times are in milliseconds.                    *)
(***************************************************************************)
\* The latest time of the clock.
MaxFetchNow == 1000

\* the goroutines calling fetchWithRetries
Fetchers == {"f1", "f2"}

FetchTimeouts == {FetchStatusSleep, 3 * FetchStatusSleep}

\* what an attempt gives
FetchOutcomes ==
    {Outcome("err", 0), Outcome("readErr", StatusOKMin),
     Outcome("status", StatusOKMin), Outcome("status", 300)}

FetchIdle ==
    /\ fpc = [t \in Fetchers |-> "off"]
    /\ fTimeout = [t \in Fetchers |-> 0]
    /\ fExpiration = [t \in Fetchers |-> 0]
    /\ fOwn = [t \in Fetchers |-> 0]
    /\ fUsed = [t \in Fetchers |-> 0]
    /\ fStart = [t \in Fetchers |-> 0]
    /\ fWake = [t \in Fetchers |-> 0]
    /\ fResult = [t \in Fetchers |-> "none"]
    /\ fClock = 0
    /\ clientTimeout = 0

\* client = http.Client{}, and each goroutine about to call
FetchInit ==
    /\ fpc = [t \in Fetchers |-> "call"]
    /\ fTimeout \in [Fetchers -> FetchTimeouts]
    /\ fExpiration = [t \in Fetchers |-> 0]
    /\ fOwn = [t \in Fetchers |-> 0]
    /\ fUsed = [t \in Fetchers |-> 0]
    /\ fStart = [t \in Fetchers |-> 0]
    /\ fWake = [t \in Fetchers |-> 0]
    /\ fResult = [t \in Fetchers |-> "none"]
    /\ fClock = 0
    /\ clientTimeout = 0

\* fetchWithRetries(req): _recFetch(req, clck.Now().Add(req.timeout))
fetchWithRetries(t) ==
    /\ fpc[t] = "call"
    /\ fExpiration' = [fExpiration EXCEPT ![t] = fClock + fTimeout[t]]
    /\ fpc' = [fpc EXCEPT ![t] = "recFetch"]
    /\ UNCHANGED <<fTimeout, fOwn, fUsed, fStart, fWake, fResult, fClock, clientTimeout>>
    /\ UNCHANGED otherThanFetch

\* now := clck.Now(); client.Timeout = expiration.Sub(now)
SetTimeout(t) ==
    /\ fpc[t] = "recFetch"
    /\ clientTimeout' = fExpiration[t] - fClock
    /\ fOwn' = [fOwn EXCEPT ![t] = fExpiration[t] - fClock]
    /\ fpc' = [fpc EXCEPT ![t] = "get"]
    /\ UNCHANGED <<fTimeout, fExpiration, fUsed, fStart, fWake, fResult, fClock>>
    /\ UNCHANGED otherThanFetch

\* client.Get(req.queryURL) sets out: its deadline is taken from
\* client.Timeout as it stands
ClientGet(t) ==
    /\ fpc[t] = "get"
    /\ fUsed' = [fUsed EXCEPT ![t] = clientTimeout]
    /\ fStart' = [fStart EXCEPT ![t] = fClock]
    /\ fpc' = [fpc EXCEPT ![t] = "inflight"]
    /\ UNCHANGED <<fTimeout, fExpiration, fOwn, fWake, fResult, fClock, clientTimeout>>
    /\ UNCHANGED otherThanFetch

\* the attempt's deadline has come: a positive timeout only sets one
TimedOut(used, start, nowT) == used > 0 /\ nowT >= start + used

\* client.Get returns, and _recFetch returns or goes to sleep
GetDone(t) ==
    /\ fpc[t] = "inflight"
    /\ \E out \in FetchOutcomes :
         LET does == recFetch(out, fClock, fExpiration[t])
         IN  /\ TimedOut(fUsed[t], fStart[t], fClock) => out.kind = "err"
             /\ fpc' = [fpc EXCEPT ![t] = IF does = "retry" THEN "sleep" ELSE "returned"]
             /\ fResult' = [fResult EXCEPT ![t] = IF does = "retry" THEN "none" ELSE does]
             /\ fWake' = [fWake EXCEPT ![t] = fClock + SleepFor("recFetch", out)]
    /\ UNCHANGED <<fTimeout, fExpiration, fOwn, fUsed, fStart, fClock, clientTimeout>>
    /\ UNCHANGED otherThanFetch

\* time.Sleep is over: return _recFetch(req, expiration)
SleepDone(t) ==
    /\ fpc[t] = "sleep"
    /\ fClock >= fWake[t]
    /\ fpc' = [fpc EXCEPT ![t] = "recFetch"]
    /\ UNCHANGED <<fTimeout, fExpiration, fOwn, fUsed, fStart, fWake, fResult, fClock, clientTimeout>>
    /\ UNCHANGED otherThanFetch

\* the clock goes on by half a second
FetchTick ==
    /\ fClock + FetchStatusSleep <= MaxFetchNow
    /\ fClock' = fClock + FetchStatusSleep
    /\ UNCHANGED <<fpc, fTimeout, fExpiration, fOwn, fUsed, fStart, fWake, fResult, clientTimeout>>
    /\ UNCHANGED otherThanFetch

FetchCall(t) ==
    \/ fetchWithRetries(t)
    \/ SetTimeout(t)
    \/ ClientGet(t)
    \/ GetDone(t)
    \/ SleepDone(t)

FetchNext == FetchTick \/ \E t \in Fetchers : FetchCall(t)

(***************************************************************************)
(* The specifications: the data server under requests, the codec, and the  *)
(* mine command.                                                           *)
(***************************************************************************)
Init == ServerInit /\ CodecIdle /\ MineIdle /\ HttpIdle /\ ConfigIdle /\ ClientIdle /\ HashersIdle /\ HistoryIdle /\ RetryIdle /\ FetchIdle

Next == ServerNext

Spec == Init /\ [][Next]_vars

CodecSpec == Init /\ [][CodecNext]_vars

MineStart == ServerInit /\ CodecIdle /\ MineInit /\ HttpIdle /\ ConfigIdle /\ ClientIdle /\ HashersIdle /\ HistoryIdle /\ RetryIdle /\ FetchIdle

HttpStart == ServerInit /\ CodecIdle /\ MineIdle /\ HttpInit /\ ConfigIdle /\ ClientIdle /\ HashersIdle /\ HistoryIdle /\ RetryIdle /\ FetchIdle

ConfigStart == ServerInit /\ CodecIdle /\ MineIdle /\ HttpIdle /\ ConfigInit /\ ClientIdle /\ HashersIdle /\ HistoryIdle /\ RetryIdle /\ FetchIdle

ConfigSpec == ConfigStart /\ [][ConfigNext]_vars

ClientStart == ServerInit /\ CodecIdle /\ MineIdle /\ HttpIdle /\ ConfigIdle /\ ClientInit /\ HashersIdle /\ HistoryIdle /\ RetryIdle /\ FetchIdle

ClientSpec == ClientStart /\ [][ClientNext]_vars

HttpSpec == HttpStart /\ [][HttpNext]_vars

\* The caller keeps running; whether the remote endpoint answers is not its to say.
HttpFairSpec == HttpSpec /\ WF_vars(Attempt) /\ WF_vars(Retry)

MineSpec == MineStart /\ [][MineNext]_vars

HashersStart == ServerInit /\ CodecIdle /\ MineIdle /\ HttpIdle /\ ConfigIdle /\ ClientIdle /\ HashersInit /\ HistoryIdle /\ RetryIdle /\ FetchIdle

HashersSpec == HashersStart /\ [][HashersNext]_vars

HistoryStart == ServerInit /\ CodecIdle /\ MineIdle /\ HttpIdle /\ ConfigIdle /\ ClientIdle /\ HashersIdle /\ HistoryInit /\ RetryIdle /\ FetchIdle

HistorySpec == HistoryStart /\ [][HistoryNext]_vars

LockSpec == Init /\ [][LockNext]_vars

\* A thread that may go on does; Lock and RLock of sync.RWMutex are given to
\* a thread that keeps finding the lock free.
LockFairSpec ==
    /\ LockSpec
    /\ \A t \in Threads :
          /\ WF_vars(VerifyAdd(t))
          /\ WF_vars(CheckDims(t))
          /\ WF_vars(PutStep(t) \/ PutFail(t))
          /\ WF_vars(GetStep(t) \/ GetFail(t))
          /\ SF_vars(LockWrite(t))
          /\ SF_vars(LockRead(t))

\* The command and the miner keep running; the data server is not held to
\* take what is sent on its exit channel.
MineFairSpec ==
    /\ MineSpec
    /\ WF_vars(WaitKill)
    /\ WF_vars(NotifyExit /\ exitChannels[nidx] = "miner")
    /\ WF_vars(ComponentStop)
    /\ WF_vars(WaitTick)

RetryStart == ServerInit /\ CodecIdle /\ MineIdle /\ HttpIdle /\ ConfigIdle /\ ClientIdle /\ HashersIdle /\ HistoryIdle /\ RetryInit /\ FetchIdle

RetrySpec == RetryStart /\ [][RetryNext]_vars

FetchStart == ServerInit /\ CodecIdle /\ MineIdle /\ HttpIdle /\ ConfigIdle /\ ClientIdle /\ HashersIdle /\ HistoryIdle /\ RetryIdle /\ FetchInit

FetchSpec == FetchStart /\ [][FetchNext]_vars

(***************************************************************************)
(* The properties.                                                         *)
(***************************************************************************)
\* The thread is past Verify and has not yet answered.
Serving(t) == pc[t] \in {"add", "lock", "dims", "put", "get"}

\* The thread holds the lock: it may access the KV.
InKV(t) == pc[t] \in {"dims", "put", "get"}

HasValues(t) == ~req[t].dbValues.nil /\ Len(req[t].dbValues.s) > 0

Served(t) == pc[t] = "done" /\ resp[t].errorMsg = ""

\* C1: a request whose signer and timestamp are those of a request the
\* server has already served is not served: it never passes Verify, and its
\* answer is an error.
C1_ReplayRejected ==
    \A t \in Threads : meta[t].replay => ~Serving(t) /\ ~Served(t)

\* C2: a request that arrives more than the validity threshold after its
\* timestamp is not served, seen before or not.
C2_ExpiredRejected ==
    \A t \in Threads : meta[t].late => ~Serving(t) /\ ~Served(t)

\* C3: every request that passes Verify, and so every request that reads or
\* writes the KV, was signed by a whitelisted key; a request signed by any
\* other key is answered with an error and nothing of the KV.
C3_Whitelist ==
    \A t \in Threads :
        /\ Serving(t) => AddrOf(meta[t].from) \in ServerWhitelist
        /\ (pc[t] = "done" /\ AddrOf(meta[t].from) \notin ServerWhitelist)
              => resp[t].errorMsg # "" /\ resp[t].dbVals = <<>> /\ outMap[t] = <<>>

\* C3's case: the outsider's request was answered Unauthorized.
C3_Witness ==
    \E t \in Threads :
        pc[t] = "done" /\ meta[t].from = KeyX /\ resp[t].errorMsg = "Unauthorized"

\* C4: every key of a served write begins with the address of the request's
\* own signer.
C4_WriteOwnPrefix ==
    \A t \in Threads :
        (Served(t) /\ HasValues(t))
            => \A i \in 1..Len(req[t].dbKeys.s) : HasPrefix(req[t].dbKeys.s[i], ashex[t])

\* C4, as the code has it: every key of a served write, and every key the
\* server has put in the KV, begins with the address of a whitelisted miner,
\* the signer or another.
C4_WritePrefixWhitelisted ==
    /\ \A t \in Threads :
          (Served(t) /\ HasValues(t))
              => \A i \in 1..Len(req[t].dbKeys.s) :
                    hasAddressPrefix(req[t].dbKeys.s[i], ServerWhitelist)
    /\ \A k \in DOMAIN kv :
          (k \notin DOMAIN InitialDB \/ kv[k] # InitialDB[k])
              => \E a \in ServerWhitelist : HasPrefix(k, a)

\* C4's case: miner B's write of a key under miner A's address was served.
C4_Witness ==
    \E t \in Threads :
        /\ Served(t) /\ HasValues(t)
        /\ meta[t].from = KeyB
        /\ req[t].dbKeys.s = <<ScratchA>>
        /\ ScratchA \in DOMAIN kv

\* C5: a decoded request with no values and a key outside the known keys is
\* answered "Invalid lookup key".
C5_ReadAllowList ==
    \A t \in Threads :
        (pc[t] = "done" /\ Len(req[t].dbValues.s) = 0
           /\ \E i \in 1..Len(req[t].dbKeys.s) : ~isKnownKey(req[t].dbKeys.s[i]))
            => resp[t].errorMsg = "Invalid lookup key"

\* C6: while a request with values may access the KV no other request may,
\* and the KV a request without values reads is the one it found when it
\* took the lock: no write happens under its eyes.
C6_SingleWriter ==
    \A t \in Threads :
        /\ (InKV(t) /\ HasValues(t)) => \A u \in Threads \ {t} : ~InKV(u)
        /\ (InKV(t) /\ ~HasValues(t)) => kv = meta[t].kvAtLock

\* C6's case: a writer is between the Puts of its batch while another
\* request waits for the lock.
C6_Witness ==
    \E t, u \in Threads :
        /\ t # u
        /\ pc[t] = "put" /\ idx[t] = 2
        /\ pc[u] = "lock"

\* C7: what decodeRequest gives for an encoded request has the request's
\* keys, values, timestamp and signature.
C7_RoundTrip ==
    cStage = "decoded" =>
        /\ cBytes.err = ""
        /\ cDec.err = ""
        /\ cDec.req.dbKeys.s = cReq.dbKeys.s
        /\ cDec.req.dbValues.s = cReq.dbValues.s
        /\ cDec.req.timestamp = cReq.timestamp
        /\ cDec.req.sig = cReq.sig

\* C7's case: a request of two keys and absent values went through.
C7_Witness ==
    cStage = "decoded" /\ cReq.dbValues.nil /\ Len(cReq.dbKeys.s) = 2

\* C8: the mining manager exists only after a status read of 1, and after
\* any other read the command has exited with its message.
C8_DisputeGate ==
    /\ miner # "nil" => status = "one"
    /\ status \notin {"unread", "one"} =>
          /\ mpc = "exited"
          /\ exitMsg = "miner is not able to mine with current status"

\* C9: the command is through its wait only when the miner and the data
\* server, if there is one, have stopped; the count of rounds alone never
\* ends the wait.
C9_ShutdownComplete ==
    mpc = "done" => miner = "stopped" /\ ds \in {"nil", "stopped"}

\* C9's case: the wait went past the warn threshold and then completed.
C9_Witness == mpc = "done" /\ warned /\ cnt > WarnThreshold

\* C10: however many kill signals arrive, the notify loop runs once, no
\* component takes more than one interrupt, the signal's sender never waits,
\* and the wait is reached with one interrupt taken by each registered
\* component, and none by the others.
C10_StopIdempotent ==
    /\ notifyRuns <= 1
    /\ \A c \in {"ds", "miner"} : interrupts[c] <= 1
    /\ (Alive /\ delivered < MaxSignals) => ENABLED KillSignal
    /\ mpc \in {"wait", "done"} =>
          /\ delivered >= 1
          /\ exitChannels = (IF remoteDS THEN <<"miner">> ELSE <<"ds", "miner">>)
          /\ interrupts = [c \in {"ds", "miner"} |->
                             IF c = "ds" /\ remoteDS THEN 0 ELSE 1]

\* C10's case: the shutdown completed after two kill signals.
C10_Witness == mpc = "done" /\ delivered >= 2 /\ ~remoteDS

\* The last attempt failed: a transport error or a status outside 200..299.
Failed(out) == out.kind = "err" \/ (out.kind # "none" /\ BadStatus(out.code))

\* C11: HTTPWithRetries returns data only from an attempt whose status is in
\* 200..299, returns an error only after a failed attempt that ended past
\* the deadline, goes on to retry after every other failed attempt, and
\* returns only after at least one attempt.
C11_RetryOutcome ==
    hKind = "recReq" =>
        /\ hResult = "data" =>
              /\ hpc = "returned"
              /\ hOutcome.kind \in {"status", "readErr"}
              /\ hOutcome.code \in StatusOKMin..StatusOKMax
        /\ hResult = "error" =>
              /\ hpc = "returned"
              /\ Failed(hOutcome)
              /\ hNow > hExpiration
        /\ hpc = "sleep" => Failed(hOutcome) /\ hNow <= hExpiration
        /\ hpc = "returned" => hAttempts >= 1 /\ hResult # "none"
        /\ (hAttempts >= 1 /\ hpc \notin {"hung", "returned"} /\ Failed(hOutcome))
              => hNow <= hExpiration + RetrySleep

\* C11's case: under a Timeout of 0 a failed attempt was retried and the
\* call then gave up with an error.
C11_Witness ==
    /\ hKind = "recReq" /\ hTimeout = 0
    /\ hResult = "error" /\ hAttempts >= 2

\* C12: every call of HTTPWithRetries returns in the end.
C12_EventuallyReturns == (hKind = "recReq") => <>(hpc = "returned")

\* C13: the sleeps between the retries of one request grow: each is longer
\* than the one before.
C13_BackoffGrows ==
    \A i \in 1..(Len(hDelays) - 1) : hDelays[i + 1] > hDelays[i]

\* C13, as the code has it: the sleep before a retry does not depend on how
\* many retries went before: 500 ms in _recReq; in _recFetch 1000 ms after
\* a transport error and 500 ms after a bad status.
C13_FixedDelay ==
    \A i \in 1..Len(hDelays) :
        IF hKind = "recReq"
        THEN hDelays[i] = RetrySleep
        ELSE hDelays[i] \in {FetchErrorSleep, FetchStatusSleep}

\* C13's case: one request has been retried three times.
C13_Witness == hKind = "recReq" /\ Len(hDelays) >= 3

\* C14: no incoming byte string ends the server: every request that fails
\* validation is answered with an error response, after which its thread
\* serves again; and from a response with an error message the client's
\* BatchGet and BatchPut return the error and no values.
C14_RejectionsAreValues ==
    \A t \in Threads :
        /\ pc[t] # "crashed"
        /\ (pc[t] = "done" /\ req[t] = NoPayload) => resp[t].errorMsg # ""
        /\ (pc[t] = "done" /\ resp[t].errorMsg # "") =>
              /\ resp[t].dbVals = <<>>
              /\ batchReturn(resp[t]).err # ""
              /\ batchReturn(resp[t]).vals = Nil

\* C18: when the command exits because the dispute status is not 1 or the
\* mining manager could not be created, a data server that was started has
\* taken its interrupt and stopped.
C18_FatalStopsDataServer ==
    (mpc = "exited"
       /\ exitMsg \in {"miner is not able to mine with current status", "creating miner"})
        => /\ ds \in {"nil", "stopped"}
           /\ ds = "stopped" => interrupts["ds"] = 1

\* C19: with the pool worker off, a node that is syncing, or whose syncing
\* query fails, ends the application in app.Before: no DB is opened, and no
\* data server or miner is created.
C19_SyncingIsFatal ==
    (~poolWorker /\ boot \in {"syncing", "syncingErr"}) =>
        /\ mpc = "exited"
        /\ exitMsg = "building context"
        /\ ~dbOpened
        /\ ds = "nil" /\ miner = "nil"
        /\ status = "unread"
        /\ exitChannels = <<>>

\* C19's case: the node was syncing and the application has exited.
C19_Witness == ~poolWorker /\ boot = "syncing" /\ mpc = "exited"

\* The address is 40 hex characters once the 0x are dropped and the case lowered.
GoodAddress(str) ==
    LET n == ToLower(ReplaceAll0x(str))
    IN  Len(n) = 2 * AddressBytes /\ \A i \in 1..Len(n) : n[i] \in HexChars

GoodPrivateKey(str) ==
    LET n == ToLower(ReplaceAll0x(str))
    IN  Len(n) = 2 * PrivateKeyBytes /\ \A i \in 1..Len(n) : n[i] \in HexChars

\* C15: ParseConfigBytes returns an error for a public address that is not
\* 40 hex characters, an empty NODE_URL, a private key that is not 64 hex
\* characters, and a gas multiplier outside [0, 20].
C15_ConfigValidation ==
    (kStage = "parsed"
       /\ \/ ~GoodAddress(kIn.publicAddress)
          \/ kIn.nodeURL = <<>>
          \/ ~GoodPrivateKey(kIn.privateKey)
          \/ kIn.gasMultiplier < 0
          \/ kIn.gasMultiplier > GasMultiplierMax)
        => kOut.err # ""

\* C16: parsing a configuration with no serverWhitelist leaves a whitelist of
\* one entry, the public address under a single 0x, which denotes the address
\* the public address does; a whitelist that was given is left as it was.
C16_WhitelistDefault ==
    (kStage = "parsed" /\ kOut.err = "") =>
        IF kIn.whitelist = <<>>
        THEN /\ Len(kOut.whitelist) = 1
             /\ kOut.whitelist[1] = <<"0", "x">> \o ReplaceAll0x(kIn.publicAddress)
             /\ HexToAddress(kOut.whitelist[1]) = HexToAddress(kOut.publicAddress)
        ELSE kOut.whitelist = kIn.whitelist

\* What the file says of a duration: the default where it is absent, a number
\* as seconds, a string as time.ParseDuration reads it.
Said(j, default) ==
    IF j.t = "num" THEN j.n * Second
    ELSE IF j.t = "str" THEN ParseDuration(j.s).d
    ELSE default

\* The file has a member that is no field of the configuration.
HasUnknownField(file) ==
    \/ file.unknown
    \/ \E j \in {file.heartbeat, file.minSubmitPeriod} :
          j.t = "obj" /\ j.keys # {"Duration"}

\* C17: ParseConfig gives the default for every option the file does not
\* set, a number of a duration as seconds and a string as the duration it
\* spells, and an error for a file with an unknown field.
C17_ConfigDefaults ==
    (kStage = "parsedFile" /\ fIn.exists) =>
        /\ HasUnknownField(fIn) => fOut.err \notin {"", "panic"}
        /\ (fOut.err = "" /\ ~HasUnknownField(fIn) /\ fIn.heartbeat.t # "obj") =>
              /\ fOut.cfg.heartbeat = Said(fIn.heartbeat, 15 * Second)
              /\ fOut.cfg.minSubmitPeriod = Said(fIn.minSubmitPeriod, 15 * Minute)
              /\ fOut.cfg.gasMax = IF fIn.gasMax.t = "absent" THEN 10 ELSE fIn.gasMax.n

\* C20: of a BatchPut or Put that posted its request, every key the server
\* decodes begins with the client's public address, a key given with the
\* prefix is sent as it was given and any other under the address and a
\* dash, prefixing the sent keys again changes nothing, and the values are
\* sent as given, in their order.
C20_WriteKeysPrefixed ==
    bpc \in {"posted", "decoded"} =>
        LET publicAddress == AddrOf(bpIn.key)
            sent == bpReq.dbKeys.s
        IN  /\ Len(sent) = Len(bpIn.keys)
            /\ \A i \in 1..Len(sent) :
                  /\ HasPrefix(sent[i], publicAddress)
                  /\ HasPrefix(bpIn.keys[i], publicAddress) => sent[i] = bpIn.keys[i]
                  /\ ~HasPrefix(bpIn.keys[i], publicAddress)
                        => sent[i] = publicAddress \o <<45>> \o bpIn.keys[i]
            /\ BatchPutKeys(sent, publicAddress) = sent
            /\ bpReq.dbValues = bpIn.values
            /\ bpc = "decoded" =>
                  /\ bpDec.err = ""
                  /\ bpDec.req.dbKeys.s = sent
                  /\ bpDec.req.dbValues.s = bpIn.values.s

\* C20's case: the server decoded a BatchPut of a key without the prefix
\* and a key with it, each with its value.
C20_Witness ==
    /\ bpc = "decoded"
    /\ bpIn.via = "BatchPut"
    /\ bpIn.key = KeyA
    /\ bpIn.keys = <<<<7>>, ScratchA>>
    /\ bpIn.values.s = <<<<11>>, <<1, 0>>>>
    /\ bpDec.req.dbKeys.s = <<AddrOf(KeyA) \o <<45, 7>>, ScratchA>>

\* The GPUs of the host that the config does not disable, in their order.
EnabledGPUs == SelectSeq(gIn.gpus, LAMBDA g : gpuConfigOf(gIn.GPUConfig, g) # "disabled")

\* The hashers are CPU miners, one of each id 0..NumProcessors-1.
IsCPUGroup(hashers) ==
    /\ DOMAIN hashers = 1..gIn.numProcessors
    /\ \A i \in DOMAIN hashers : hashers[i].kind = "cpu" /\ hashers[i].id = i - 1
    /\ \A i, j \in DOMAIN hashers : i # j => hashers[i].id # hashers[j].id

\* C21: the group SetupMiningGroup returns has, in the CPU build, a CPU miner
\* of each id 0..NumProcessors-1 and no other hasher; in the GPU build a GPU
\* miner of each GPU the config does not disable, and the CPU miners of the
\* CPU build instead exactly when there is no such GPU.
C21_HasherGroup ==
    (gpc = "done" /\ gOut.err = "") =>
        IF gIn.build = "cpu" THEN IsCPUGroup(gOut.hashers)
        ELSE /\ EnabledGPUs # <<>> =>
                  gOut.hashers = [i \in DOMAIN EnabledGPUs |-> NewGpuMiner(EnabledGPUs[i])]
             /\ EnabledGPUs = <<>> <=> IsCPUGroup(gOut.hashers)

\* C21's case: the GPU build, one GPU of two disabled, gave one GPU miner.
C21_Witness ==
    /\ gpc = "done"
    /\ gOut.err = ""
    /\ gIn.build = "gpu"
    /\ Len(gIn.gpus) = 2
    /\ Len(EnabledGPUs) = 1
    /\ gOut.hashers = <<NewGpuMiner(EnabledGPUs[1])>>

\* The component's Running is true.
ReportsRunning(comp) == comp \in {"running", "stopping"}

\* C22: every round of the wait loop past the 60th in which the data server
\* or the miner still reports running logs the warning, also when one of the
\* two has stopped.
C22_WarnPastThreshold ==
    [][(mpc = "wait" /\ cnt' = cnt + 1 /\ cnt' > WarnThreshold
          /\ (ReportsRunning(ds) \/ ReportsRunning(miner)))
        => warned']_vars

\* C23: the addresses with a history are the whitelisted addresses, no
\* history holds more than 50 timestamps, and no call of Verify ends with
\* 'No history found for address'.
C23_HistoryInvariant ==
    vLast # NoCall =>
        /\ DOMAIN vHistory = vWhitelist
        /\ \A a \in DOMAIN vHistory : Cardinality(vHistory[a]) <= HistorySize
        /\ vLast.err # "No history found for address"

\* C23's case: a whitelisted signer was verified with a timestamp its full
\* history did not hold, and the history gave up an older one for it.
C23_Witness ==
    /\ vLast.err = ""
    /\ vLast.key = KeyA
    /\ vLast.ts = MaxHistTs
    /\ Cardinality(vHistory[AddrOf(KeyA)]) = HistorySize
    /\ \E t \in 0..(MaxHistTs - 1) : t \notin vHistory[AddrOf(KeyA)]

\* C25: a call of Verify that returns no error leaves the timestamp in the
\* signer's history, one that returns an error leaves every history as it
\* was, and no call changes the history of an address other than the signer.
C25_VerifyEffect ==
    [][vLast' # vLast =>
          /\ vLast'.err = "" => vLast'.ts \in vHistory'[vLast'.addr]
          /\ vLast'.err # "" => vHistory' = vHistory
          /\ DOMAIN vHistory' = DOMAIN vHistory
          /\ \A a \in DOMAIN vHistory : a # vLast'.addr => vHistory'[a] = vHistory[a]]_vars

\* C25's case: Verify refused a timestamp the signer's history holds, the
\* request expired, after it had accepted requests of two signers.
C25_Witness ==
    /\ vLast.err = "Request expired"
    /\ vLast.ts \in vHistory[vLast.addr]
    /\ \E a \in DOMAIN vHistory : a # vLast.addr /\ vHistory[a] # {}

\* C24: a request with values that is answered with an error in its write
\* branch (the counts of keys and values differ, a key has no address prefix,
\* or a Put fails) leaves the KV as it was when the request took the lock.
C24_RejectedWriteNoEffect ==
    [][\A t \in Threads :
          (pc[t] \in {"dims", "put"} /\ HasValues(t)
             /\ pc'[t] = "done" /\ resp'[t].errorMsg # "")
            => kv' = meta[t].kvAtLock]_vars

\* The thread holds the lock.
HoldsLock(t) == writer = t \/ t \in readers

\* C26: a thread holds the lock only between taking it and its answer, so a
\* thread that has answered, with data or an error, holds none; and a thread
\* that waits for the lock is answered in the end.
C26_LockReleased ==
    /\ [](\A t \in Threads : HoldsLock(t) => InKV(t))
    /\ \A t \in Threads : (pc[t] = "lock") ~> (pc[t] = "done")

\* C26's case: a write was refused with the error of a failed Put, and
\* the other thread holds the write lock after it.
C26_Witness ==
    \E t, u \in Threads :
        /\ pc[t] = "done"
        /\ resp[t].errorMsg = "localDB.Put"
        /\ writer = u
        /\ u # t

\* C27: once the command has taken the kill signal the miner's exit channel
\* receives its interrupt, whether or not the data server takes its own, and
\* no exit channel receives more than one.
C27_MinerInterrupted ==
    /\ [](\A ch \in {"ds", "miner"} : interrupts[ch] <= 1)
    /\ (mpc = "notify") ~> (interrupts["miner"] = 1)

\* The data server's Start has returned without error and its Ready was
\* signalled.
DSWasReady == ds \in {"running", "stopping", "stopped"}

\* C28: without --remote, and a DB of its own to serve, the command reads the
\* dispute status and creates the miner only with the data server started and
\* ready; with --remote there is no data server, no exit channel of one, and
\* a round of the wait loop ends the wait exactly when it finds the miner
\* stopped.
C28_StartupOrder ==
    /\ (~remoteDS /\ (status # "unread" \/ miner # "nil")) => DSWasReady
    /\ (~remoteDS /\ ~poolWorker /\ mpc \in {"status", "createMiner", "waitKill"})
          => ds = "running"
    /\ remoteDS =>
          /\ ds = "nil"
          /\ \A n \in 1..Len(exitChannels) : exitChannels[n] # "ds"
          /\ mpc = "done" => miner = "stopped"
          /\ mpc = "wait" =>
                \A c \in 1..MaxCnt :
                    /\ \A s \in ReadStopped(ds) : WaitRound(c, s, TRUE) = "break"
                    /\ \A s \in ReadStopped(ds) : WaitRound(c, s, FALSE) # "break"

\* C28's case: in local mode the miner runs, the data server ready before it.
C28_Witness ==
    /\ ~remoteDS
    /\ ~poolWorker
    /\ status = "one"
    /\ miner = "running"
    /\ ds = "running"
    /\ exitChannels = <<"ds", "miner">>

C31_FetchDeadline ==
    [][(hKind = "recFetch" /\ hAttempts' = hAttempts + 1) =>
           /\ hNow < hExpiration
           /\ ClientTimeout(hKind, hExpiration, hNow) = hExpiration - hNow]_vars

\* C32: with several calls of fetchWithRetries running, every attempt runs
\* under the timeout computed from its own call's expiration: another
\* call, whatever its expiration, does not change it.
C32_OwnTimeout ==
    \A t \in Fetchers : fpc[t] = "inflight" => fUsed[t] = fOwn[t]

=============================================================================
